---- MODULE Spec2Model ----
(***************************************************************************)
(* Outbound call orchestration of voice_agent: the batch entrypoint of     *)
(* start_calls.py (main, CallManager, save_call_result, the backup         *)
(* notifiers), the StateManager of state_manager.py (distributed lock,     *)
(* conversation event log, call metrics, appointment cache) and the status *)
(* updates of agent.py and database_manager.py.                            *)
(*                                                                         *)
(* The collaborators the repository only calls (the LiveKit room service,  *)
(* the call-placement provider, the SMS/email services, the Redis server)  *)
(* are the environment: every call to one of them returns or raises, and   *)
(* the outcome is chosen with \E in the action that makes the call.        *)
(* Timestamps (datetime.now().isoformat()) are left out of the records.    *)
(***************************************************************************)
EXTENDS Integers, Sequences, FiniteSets, TLC

None == "None"

(***************************************************************************)
(* Program constants                                                       *)
(***************************************************************************)
max_retries == 3
\* Assistant.max_no_response
max_no_response == 3
retry_delay == 5
inter_call_delay == 5

\* The two rows of FAKE_APPOINTMENTS_DB without their "date" and "status".
FAKE_APPOINTMENTS_ROWS ==
    << [appointment_id |-> "randevu_101", customer_name |-> "Ahmet Yilmaz",
        phone |-> "+905551112233", email |-> "ahmet@example.com", time |-> "14:30"],
       [appointment_id |-> "randevu_102", customer_name |-> "Zeynep Kaya",
        phone |-> "+905554445566", email |-> "zeynep@example.com", time |-> "16:00"] >>

AppointmentIds == { FAKE_APPOINTMENTS_ROWS[k].appointment_id : k \in DOMAIN FAKE_APPOINTMENTS_ROWS }

\* Values the "date" and "status" columns are drawn from; the run's target
\* date (tomorrow) is one of Dates.
Dates == {"2025-10-05", "2025-10-06"}
Statuses == {"Beklemede", "Onaylandi"}

(***************************************************************************)
(* Exception messages of the room service, as sequences of words, so that  *)
(* str(e).lower() and the substring test are computed.                     *)
(***************************************************************************)
RoomErrors ==
    { <<"room", "already", "exists">>,
      <<"Room", "Already", "Exists">>,
      <<"connection", "refused">> }

RoomOutcomes ==
    { [raised |-> FALSE, msg |-> << >>] } \cup { [raised |-> TRUE, msg |-> m] : m \in RoomErrors }

\* How the start of a run can go: the credentials are there and the API
\* client is built, a credential is missing, or the API client's
\* constructor raises
StartupOutcomes == {"ok", "no_credentials", "api_raises"}
\* How lk_api.close() can go
CloseOutcomes == {"ok", "raises"}
PlaceOutcomes == {"ok", "fail", "raise"}
NotifierOutcomes == {"done", "raised"}

VARIABLES
    db,             \* FAKE_APPOINTMENTS_DB
    tomorrow,       \* the run's target date
    pc,             \* position of main()
    appointments,   \* main's local list of due appointments
    i,              \* main's loop index (enumerate(..., 1))
    attempt,        \* place_call_with_retry's loop variable
    room_name,      \* main's local room_name
    result,         \* main's local result
    CALL_RESULTS,   \* the module-level list of recorded results
    active_rooms,   \* CallManager.active_rooms
    smsTask,        \* per appointment: state of its send_sms_backup task
    emailTask,      \* per appointment: state of its send_email_backup task
    summary,        \* what print_summary printed
    roomLog,        \* per appointment: outcomes of lk_api.room.create_room
    placeLog,       \* per appointment: outcomes of place_call_simulation
    sleepLog,       \* per appointment: the sleeps between attempts
    delayLog,       \* the sleeps between appointments
    smsCalls,       \* per appointment: invocations of send_sms_backup
    emailCalls,     \* per appointment: invocations of send_email_backup
    exit_status     \* the status the process ended with, << >> while it runs

bvars == << db, tomorrow, pc, appointments, i, attempt, room_name, result,
            CALL_RESULTS, active_rooms, smsTask, emailTask, summary,
            roomLog, placeLog, sleepLog, delayLog, smsCalls, emailCalls,
            exit_status >>

\* Workers that use StateManager.lock, and the resources they lock
Workers == {"w1", "w2"}
Resources == { "call:" \o a : a \in AppointmentIds }

\* The timeout argument of StateManager.lock in ticks of the model's clock:
\* both the TTL of the Redis key and the blocking_timeout of acquire.
LockTimeout == 2

VARIABLES
    lockStore,      \* Redis: lock key -> token stored under it, or None
    lockTtl,        \* Redis: lock key -> ticks until the key expires
    wpc,            \* per worker: position in `async with state.lock(resource)`
    wres,           \* per worker: the resource argument
    wtoken,         \* per worker: Lock.local.token
    waited,         \* per worker: ticks spent in lock.acquire so far
    wout,           \* per worker: how its last `async with` ended
    wbody,          \* per worker: how the body of its last `async with` ended
    wrel,           \* per worker: what lock.release() did in the finally block
    wsaw            \* per worker: what the key held when its lock.release() ran

lvars == << lockStore, lockTtl, wpc, wres, wtoken, waited, wout, wbody, wrel, wsaw >>

VARIABLES
    roomCalls       \* calls of create_room_for_appointment made outside a batch

rvars == << roomCalls >>

\* The maxlen argument of xadd in log_conversation_event (1000 in the source),
\* scaled down; every property of the event log is stated in terms of it.
StreamMaxLen == 2
\* How many log_conversation_event calls a behaviour makes at most
MaxEvents == 4
\* The count arguments of get_conversation_events that are tried
MaxCount == 3

EventTypes == {"greeting", "ended"}

VARIABLES
    streams,        \* Redis: stream key -> its entries, oldest first
    streamClock,    \* Redis: the server's clock, from which entry ids are made
    evCalls,        \* every log_conversation_event call: its arguments and return
    evGot           \* the last get_conversation_events call: its arguments,
                    \* the server's clock at the call, and its return

evars == << streams, streamClock, evCalls, evGot >>

\* How many increment_call_metric calls a behaviour makes at most
MaxIncrements == 3

\* metric_names of get_call_metrics
metric_names == << "confirmed", "cancelled", "rescheduled", "no_response", "total" >>
\* The metric arguments that are tried: the enumerated names and one that
\* get_call_metrics does not read
MetricArgs == { metric_names[k] : k \in DOMAIN metric_names } \cup {"error"}
\* The value arguments that are tried (value: int = 1)
Deltas == {0 - 1, 1, 2}

VARIABLES
    metricStore,    \* Redis: metrics key -> the string stored under it, or None
    incrCalls,      \* every increment_call_metric call: its arguments and return
    metricsGot      \* the last get_call_metrics call: how many increments
                    \* preceded it, and its return

mvars == << metricStore, incrCalls, metricsGot >>

\* StateManager.cache_ttl (CACHE_TTL, 3600 seconds by default) in ticks of
\* the model's clock
CacheTtl == 2
\* How many Assistant.update_appointment_status calls a behaviour makes at most
MaxStatusUpdates == 2

\* Statuses of agent.py, as sequences of words, so that
\* status.startswith('Ertelendi') is computed
valid_statuses == { <<"Onaylandi">>, <<"Iptal", "Edildi">> }
\* The status arguments that are tried: one of valid_statuses, one
\* postponement, and one that is neither
StatusArgs == { <<"Onaylandi">>, <<"Ertelendi", "-", "Pazartesi">>, <<"Beklemede">> }

\* How many Assistant.handle_no_response calls a behaviour makes at most
MaxNoResponseCalls == 4
\* How many Assistant.get_appointment_details calls a behaviour makes at most:
\* the ten that test_concurrent_function_calls gathers
MaxLookups == 10
\* How many CallMetrics.update calls may precede an Assistant.end_call tool call
MaxMetricUpdates == 2

\* The appointment id arguments that are tried: the ids of the store, the empty
\* string, an id the store does not have, and None
UnknownId == "randevu_999"
IdArgs == AppointmentIds \cup {"", UnknownId}
LookupArgs == IdArgs \cup {None}
\* The appointment_id an Assistant is constructed with: the id read from the
\* room metadata, or None
SelfIds == {"randevu_101", None}
\* The status arguments the Assistant's tools are tried with
AgentStatusArgs == StatusArgs \cup valid_statuses
\* The reasons end_call is tried with: three of the statuses CallMetrics
\* counts, and one it does not
CountedStatuses == {"confirmed", "cancelled", "rescheduled", "no_response"}
EndReasons == {"confirmed", "cancelled", "no_response", "error"}

VARIABLES
    agent_db,           \* agent.py's FAKE_APPOINTMENTS_DB: appointment id -> status
    call_metrics,       \* agent.py's module-level CallMetrics
    CONVERSATION_LOGS,  \* agent.py's module-level list of logged events
    self_appointment_id, \* the Assistant's appointment_id
    no_response_count,  \* the Assistant's no_response_count
    sessionClosed,      \* whether end_call has closed the session
    agentRet,           \* the Assistant's last tool call: its name, arguments and
                        \* return, << >> before the first
    lookups,            \* how many get_appointment_details calls have returned
    metricCalls,        \* the status arguments of the CallMetrics.update calls made
    dbUpdateRet,        \* what DatabaseManager.update_appointment_status last returned
    cacheStore,         \* Redis: cache key -> the JSON text under it, << >> if absent
    cacheTtl,           \* Redis: cache key -> ticks until the key expires
    cacheLive,          \* per appointment: the data of the latest cache_appointment
                        \* not followed by an invalidation or an expiry, else << >>
    cacheGot            \* the last get_cached_appointment call: its argument and
                        \* return, with cacheLive and agent_db of that id at the call

agentVars == << agent_db, call_metrics, CONVERSATION_LOGS, self_appointment_id,
                no_response_count,
                sessionClosed, agentRet, lookups, metricCalls >>

cvars == << agentVars, dbUpdateRet, cacheStore, cacheTtl, cacheLive, cacheGot >>

\* How many commands a behaviour sends to Redis at most while the
\* connection of the StateManager is exercised
MaxRedisCommands == 2

\* The operations of the StateManager that begin with _ensure_connected
StateManagerOps ==
    { "cache_appointment", "get_cached_appointment", "invalidate_appointment",
      "log_conversation_event", "get_conversation_events", "lock",
      "publish_status_update", "increment_call_metric", "get_call_metrics" }

VARIABLES
    sm_connected,   \* StateManager._connected
    sm_redis,       \* StateManager.redis: None or the client object
    smRet,          \* the last operation called on the StateManager and the
                    \* exception it raised, if any; << >> before the first
    redisLog,       \* the commands that were sent to the Redis server
    connHist        \* "new" after __init__, "up" once a connect() has returned,
                    \* "down" once a disconnect() has returned

svars == << sm_connected, sm_redis, smRet, redisLog, connHist >>

vars == << bvars, lvars, rvars, evars, mvars, cvars, svars >>
nonBatch == << lvars, rvars, evars, mvars, cvars, svars >>
nonLock == << bvars, rvars, evars, mvars, cvars, svars >>
nonEvent == << bvars, lvars, rvars, mvars, cvars, svars >>
nonMetric == << bvars, lvars, rvars, evars, cvars, svars >>
nonCache == << bvars, lvars, rvars, evars, mvars, svars >>
nonConn == << bvars, lvars, rvars, evars, mvars, cvars >>
nonRoom == << db, tomorrow, pc, appointments, i, attempt, room_name, result,
              CALL_RESULTS, smsTask, emailTask, summary,
              roomLog, placeLog, sleepLog, delayLog, smsCalls, emailCalls,
              exit_status, lvars, evars, mvars, cvars, svars >>

(***************************************************************************)
(* Pure helpers                                                            *)
(***************************************************************************)
\* str.lower() on one word
LowerWord(w) ==
    CASE w = "Room" -> "room"
      [] w = "Already" -> "already"
      [] w = "Exists" -> "exists"
      [] OTHER -> w

Lower(msg) == [k \in DOMAIN msg |-> LowerWord(msg[k])]

\* needle in hay
Contains(needle, hay) ==
    \E k \in 0..Len(hay) :
        /\ k + Len(needle) <= Len(hay)
        /\ SubSeq(hay, k + 1, k + Len(needle)) = needle

\* the test without .lower()
IsAlreadyExists_CaseSensitive(msg) == Contains(<<"already", "exists">>, msg)

\* "already exists" in str(e).lower()
IsAlreadyExists(msg) == Contains(<<"already", "exists">>, Lower(msg))

\* f"confirmation_call_{appointment['appointment_id']}"
RoomNameOf(appointment) == "confirmation_call_" \o appointment.appointment_id

\* A value of a dict that is serialised: a Python str, or a date object
StrVal(v) == [type |-> "str", v |-> v]
DateVal(v) == [type |-> "date", v |-> v]

\* json.dumps (with default=str in the cache): the text has a JSON string for a str and,
\* through default=str, the str() of any value that is not a JSON type
JsonDumps(data) == [f \in DOMAIN data |-> data[f].v]

\* json.loads: every JSON string is read back as a Python str
JsonLoads(text) == [f \in DOMAIN text |-> StrVal(text[f])]

\* the metadata dict of create_room_for_appointment; created_at stands for
\* datetime.now().isoformat()
room_metadata(appointment) ==
    [appointment_id |-> StrVal(appointment.appointment_id),
     customer_name |-> StrVal(appointment.customer_name),
     task |-> StrVal("confirm_appointment"),
     created_at |-> StrVal("isoformat")]

\* CallManager.create_room_for_appointment: the returned name (or None),
\* whether the name was appended to active_rooms, and the metadata of the
\* CreateRoomRequest, json.dumps(metadata).
create_room_for_appointment(appointment, outcome) ==
    LET metadata == JsonDumps(room_metadata(appointment)) IN
    IF ~outcome.raised
    THEN [ret |-> RoomNameOf(appointment), appended |-> TRUE, metadata |-> metadata]
    ELSE IF IsAlreadyExists(outcome.msg)
         THEN [ret |-> RoomNameOf(appointment), appended |-> FALSE, metadata |-> metadata]
         ELSE [ret |-> None, appended |-> FALSE, metadata |-> metadata]

\* entrypoint of agent.py: json.loads(ctx.room.metadata).get("appointment_id")
entrypoint_appointment_id(metadata) ==
    LET metadata_dict == JsonLoads(metadata) IN
    IF "appointment_id" \in DOMAIN metadata_dict
    THEN metadata_dict.appointment_id.v ELSE None

\* the comprehension without its status test
get_tomorrows_appointments_AnyStatus(d, tom) ==
    SelectSeq(d, LAMBDA appt : appt.date = tom)

\* get_tomorrows_appointments: the list comprehension over the fake DB
get_tomorrows_appointments(d, tom) ==
    SelectSeq(d, LAMBDA appt : appt.date = tom /\ appt.status = "Beklemede")

\* a save that puts the newest result first
save_call_result_Prepends(results, r) == << r >> \o results

\* a save that loses the results no attempt was made for
save_call_result_SkipsZeroAttempts(results, r) ==
    IF r.attempts = 0 THEN results ELSE Append(results, r)

\* save_call_result
save_call_result(results, r) == Append(results, r)

\* the dict place_call_with_retry returns on success
SuccessResult(id, n) ==
    [success |-> TRUE, appointment_id |-> id, attempts |-> n]

\* a loop whose counter has gone past the last attempt reported as it is
ExhaustedResult_LoopCounter(id) ==
    [success |-> FALSE, appointment_id |-> id, attempts |-> max_retries + 1,
     error |-> "Max retry exceeded"]

\* the dict place_call_with_retry returns after the loop
ExhaustedResult(id) ==
    [success |-> FALSE, appointment_id |-> id, attempts |-> max_retries,
     error |-> "Max retry exceeded"]

\* the dict main saves when no room could be created
RoomFailedResult(id) ==
    [success |-> FALSE, appointment_id |-> id, attempts |-> 0,
     error |-> "Room creation failed"]

\* the dict main's except handler saves
ExceptionResult(id, e) ==
    [success |-> FALSE, appointment_id |-> id, attempts |-> 0, error |-> e]

\* range(1, self.max_retries) instead of range(1, self.max_retries + 1)
AfterAttempt_OffByOne(outcome, n) ==
    IF outcome = "ok" THEN "return_success"
    ELSE IF n + 1 < max_retries THEN "sleep"
    ELSE "exhausted"

\* a loop without its `except Exception`: the provider's exception leaves
\* place_call_with_retry
AfterAttempt_NoExcept(outcome, n) ==
    IF outcome = "ok" THEN "return_success"
    ELSE IF outcome = "raise" THEN "propagate"
    ELSE IF n < max_retries THEN "sleep"
    ELSE "exhausted"

\* an except branch that tests `attempt <= self.max_retries`
AfterAttempt_ExceptOffByOne(outcome, n) ==
    IF outcome = "ok" THEN "return_success"
    ELSE IF outcome = "raise" /\ n < max_retries + 1 THEN "sleep"
    ELSE IF n < max_retries THEN "sleep"
    ELSE "exhausted"

\* a loop that sleeps after its last permitted attempt as well
AfterAttempt_SleepAfterLast(outcome, n) ==
    IF outcome = "ok" THEN "return_success"
    ELSE IF n < max_retries + 1 THEN "sleep"
    ELSE "exhausted"

\* a loop that only looks at the last attempt's answer
AfterAttempt_NoShortCircuit(outcome, n) ==
    IF n < max_retries THEN "sleep"
    ELSE IF outcome = "ok" THEN "return_success"
    ELSE "exhausted"

\* What one iteration of place_call_with_retry's loop does after the
\* provider answered: return, sleep and go on, or leave the loop.
AfterAttempt(outcome, n) ==
    IF outcome = "ok" THEN "return_success"
    ELSE IF n < max_retries THEN "sleep"
    ELSE "exhausted"

\* main notifying before it saves
PcAfterPlace_NotifyFirst == "notify"

\* where main goes once place_call_with_retry returned
PcAfterPlace == "save"

\* notifying whatever the result
NeedsBackup_Always(r) == TRUE

\* if not result['success']
NeedsBackup(r) == ~r.success

\* gather without return_exceptions
GatherReturnExceptions_False == FALSE

\* asyncio.gather(..., return_exceptions=True)
GatherReturnExceptions == TRUE

\* main going on without looking at the list
NoDueAppointments_Ignored(appts) == FALSE

\* if not appointments: return
NoDueAppointments(appts) == appts = << >>

\* print_summary's `successful / total * 100` raises ZeroDivisionError
\* for an empty list
print_summary_raises(results) == Len(results) = 0

\* print_summary
print_summary(results) ==
    LET ok == { k \in DOMAIN results : results[k].success }
    IN [ total |-> Len(results),
         successful |-> Cardinality(ok),
         failed |-> Len(results) - Cardinality(ok),
         failed_ids |-> SelectSeq(results, LAMBDA r : ~r.success) ]

(***************************************************************************)
(* Initial state                                                           *)
(***************************************************************************)
DbChoices == [DOMAIN FAKE_APPOINTMENTS_ROWS -> Dates \X Statuses]

RowWith(row, c) ==
    [appointment_id |-> row.appointment_id, customer_name |-> row.customer_name,
     phone |-> row.phone, email |-> row.email, time |-> row.time,
     date |-> c[1], status |-> c[2]]

\* main's locals and the module-level lists before main runs
BatchLocalsInit ==
    /\ pc = "start"
    /\ appointments = << >>
    /\ i = 0
    /\ attempt = 0
    /\ room_name = None
    /\ result = None
    /\ CALL_RESULTS = << >>
    /\ active_rooms = << >>
    /\ smsTask = [a \in AppointmentIds |-> "none"]
    /\ emailTask = [a \in AppointmentIds |-> "none"]
    /\ summary = None
    /\ roomLog = [a \in AppointmentIds |-> << >>]
    /\ placeLog = [a \in AppointmentIds |-> << >>]
    /\ sleepLog = [a \in AppointmentIds |-> << >>]
    /\ delayLog = << >>
    /\ smsCalls = [a \in AppointmentIds |-> 0]
    /\ emailCalls = [a \in AppointmentIds |-> 0]
    /\ exit_status = << >>

BatchInit ==
    /\ \E c \in DbChoices :
          db = [k \in DOMAIN FAKE_APPOINTMENTS_ROWS |-> RowWith(FAKE_APPOINTMENTS_ROWS[k], c[k])]
    /\ tomorrow \in Dates
    /\ BatchLocalsInit

\* one key for every resource
LockKey_Shared(resource) == "lock:"

\* f"lock:{resource}"
LockKey(resource) == "lock:" \o resource
LockKeys == { LockKey(r) : r \in Resources }

LockInit ==
    /\ lockStore = [k \in LockKeys |-> None]
    /\ lockTtl = [k \in LockKeys |-> 0]
    /\ wpc = [w \in Workers |-> "idle"]
    /\ wres = [w \in Workers |-> None]
    /\ wtoken = [w \in Workers |-> None]
    /\ waited = [w \in Workers |-> 0]
    /\ wout = [w \in Workers |-> None]
    /\ wbody = [w \in Workers |-> None]
    /\ wrel = [w \in Workers |-> None]
    /\ wsaw = [w \in Workers |-> None]

RoomInit == roomCalls = << >>

\* f"conversation:{appointment_id}"
StreamKey(appointment_id) == "conversation:" \o appointment_id
StreamKeys == { StreamKey(a) : a \in AppointmentIds }

EventInit ==
    /\ streams = [k \in StreamKeys |-> << >>]
    /\ streamClock = 0
    /\ evCalls = << >>
    /\ evGot = << >>

\* f"metrics:calls:{metric}"
MetricKey(metric) == "metrics:calls:" \o metric
MetricKeys == { MetricKey(m) : m \in MetricArgs }

MetricInit ==
    /\ metricStore = [k \in MetricKeys |-> None]
    /\ incrCalls = << >>
    /\ metricsGot = << >>

\* f"appointment:{appointment_id}"
CacheKey(appointment_id) == "appointment:" \o appointment_id
CacheKeys == { CacheKey(a) : a \in AppointmentIds }

\* agent.py as loaded: both appointments 'Beklemede', the counters 0, no
\* logs; and an Assistant as __init__ leaves it but for its appointment_id
AgentGlobalsInit ==
    /\ agent_db = [a \in AppointmentIds |-> <<"Beklemede">>]
    /\ call_metrics = [total_calls |-> 0, confirmed |-> 0, cancelled |-> 0,
                       rescheduled |-> 0, no_response |-> 0]
    /\ CONVERSATION_LOGS = << >>
    /\ no_response_count = 0
    /\ sessionClosed = FALSE
    /\ agentRet = << >>
    /\ lookups = 0
    /\ metricCalls = << >>
    /\ dbUpdateRet = << >>

\* Assistant(): appointment_id defaults to None
AgentInit == AgentGlobalsInit /\ self_appointment_id = None

CacheInit ==
    /\ cacheStore = [k \in CacheKeys |-> << >>]
    /\ cacheTtl = [k \in CacheKeys |-> 0]
    /\ cacheLive = [a \in AppointmentIds |-> << >>]
    /\ cacheGot = << >>

\* StateManager.__init__: no client, not connected
ConstructedInit ==
    /\ sm_connected = FALSE
    /\ sm_redis = None
    /\ smRet = << >>
    /\ redisLog = << >>
    /\ connHist = "new"

\* a StateManager whose connect() has returned, as init_state_manager
\* leaves it
ConnectedInit ==
    /\ sm_connected = TRUE
    /\ sm_redis = "client"
    /\ smRet = << >>
    /\ redisLog = << >>
    /\ connHist = "up"

StoreInit == EventInit /\ MetricInit /\ AgentInit /\ CacheInit /\ ConnectedInit

Init == BatchInit /\ LockInit /\ RoomInit /\ StoreInit

(***************************************************************************)
(* main()                                                                  *)
(***************************************************************************)
cur == appointments[i]
aid == cur.appointment_id

\* The module-level credential check, then main up to the loop.  Without
\* LIVEKIT_API_KEY or LIVEKIT_API_SECRET the module calls exit(1) while it
\* is loaded.  If the LiveKitAPI constructor raises, main's outer handler
\* logs and re-raises.  Otherwise main fetches the due appointments and
\* returns if there are none.
MainStart ==
    /\ pc = "start"
    /\ \E startup \in StartupOutcomes :
          CASE startup = "no_credentials" ->
                  /\ pc' = "exited"
                  /\ exit_status' = << 1 >>
                  /\ UNCHANGED << appointments, i >>
            [] startup = "api_raises" ->
                  /\ pc' = "api_failed"
                  /\ UNCHANGED << appointments, i, exit_status >>
            [] OTHER ->
                  /\ appointments' = get_tomorrows_appointments(db, tomorrow)
                  /\ IF NoDueAppointments(appointments')
                     THEN pc' = "returned" /\ i' = i
                     ELSE pc' = "loop" /\ i' = 1
                  /\ exit_status' = exit_status
    /\ UNCHANGED nonBatch
    /\ UNCHANGED << db, tomorrow, attempt, room_name, result, CALL_RESULTS,
                    active_rooms, smsTask, emailTask, summary,
                    roomLog, placeLog, sleepLog, delayLog, smsCalls, emailCalls >>

\* a handler that lets the exception go on to main's outer handler
ExceptHandler_Reraise(e) ==
    /\ pc' = "aborted"
    /\ UNCHANGED << CALL_RESULTS, i >>

\* main's except handler: save a failure result and continue
ExceptHandler(e) ==
    /\ CALL_RESULTS' = save_call_result(CALL_RESULTS, ExceptionResult(aid, e))
    /\ i' = i + 1
    /\ pc' = "loop"

\* The keys that the head of the loop body reads before its try block
\* (appointment["customer_name"], ["appointment_id"], ['time'])
HeaderKeys == {"customer_name", "appointment_id", "time"}

\* The head of the loop body, then step 1: create the room; on None save the
\* failure and continue.  A KeyError in the head is outside the inner try:
\* main's outer handler logs it and re-raises, which ends the run.
CreateRoom ==
    /\ pc = "loop"
    /\ i <= Len(appointments)
    /\ IF HeaderKeys \subseteq DOMAIN cur
       THEN \E outcome \in RoomOutcomes :
          LET r == create_room_for_appointment(cur, outcome) IN
          /\ roomLog' = [roomLog EXCEPT ![aid] = Append(@, outcome)]
          /\ active_rooms' = IF r.appended THEN Append(active_rooms, r.ret) ELSE active_rooms
          /\ room_name' = r.ret
          /\ IF r.ret = None
             THEN /\ CALL_RESULTS' = save_call_result(CALL_RESULTS, RoomFailedResult(aid))
                  /\ i' = i + 1
                  /\ pc' = "loop"
                  /\ attempt' = attempt
             ELSE /\ pc' = "place"
                  /\ attempt' = 1
                  /\ UNCHANGED << CALL_RESULTS, i >>
       ELSE /\ pc' = "aborted"
            /\ UNCHANGED << roomLog, active_rooms, room_name, CALL_RESULTS, i, attempt >>
    /\ UNCHANGED nonBatch
    /\ UNCHANGED << exit_status, db, tomorrow, appointments, result, smsTask, emailTask, summary,
                    placeLog, sleepLog, delayLog, smsCalls, emailCalls >>

\* str(KeyError('phone'))
KeyErrorPhone == "'phone'"
\* str(e) of an exception of the call provider
ProviderError == "provider error"

\* phone_number = appointment["phone"] (a KeyError goes to main's handler),
\* then one iteration of place_call_with_retry's loop, up to its return or sleep
PlaceCallAttempt ==
    /\ pc = "place"
    /\ IF "phone" \in DOMAIN cur
       THEN \E outcome \in PlaceOutcomes :
          LET nxt == AfterAttempt(outcome, attempt) IN
          /\ placeLog' = [placeLog EXCEPT ![aid] = Append(@, outcome)]
          /\ CASE nxt = "return_success" ->
                    /\ result' = SuccessResult(aid, attempt)
                    /\ pc' = PcAfterPlace
                    /\ UNCHANGED << CALL_RESULTS, i >>
               [] nxt = "sleep" ->
                    /\ result' = result
                    /\ pc' = "retry_sleep"
                    /\ UNCHANGED << CALL_RESULTS, i >>
               [] nxt = "propagate" ->
                    /\ result' = result
                    /\ ExceptHandler(ProviderError)
               [] OTHER ->
                    /\ result' = ExhaustedResult(aid)
                    /\ pc' = PcAfterPlace
                    /\ UNCHANGED << CALL_RESULTS, i >>
       ELSE /\ ExceptHandler(KeyErrorPhone)
            /\ UNCHANGED << placeLog, result >>
    /\ UNCHANGED nonBatch
    /\ UNCHANGED << exit_status, db, tomorrow, appointments, attempt, room_name,
                    active_rooms, smsTask, emailTask, summary,
                    roomLog, sleepLog, delayLog, smsCalls, emailCalls >>

\* await asyncio.sleep(self.retry_delay), then the next iteration
RetrySleep ==
    /\ pc = "retry_sleep"
    /\ sleepLog' = [sleepLog EXCEPT ![aid] = Append(@, retry_delay)]
    /\ attempt' = attempt + 1
    /\ pc' = "place"
    /\ UNCHANGED nonBatch
    /\ UNCHANGED << exit_status, db, tomorrow, appointments, i, room_name, result, CALL_RESULTS,
                    active_rooms, smsTask, emailTask, summary,
                    roomLog, placeLog, delayLog, smsCalls, emailCalls >>

\* await save_call_result(result); if not result['success']: gather(...)
SaveResult ==
    /\ pc = "save"
    /\ CALL_RESULTS' = save_call_result(CALL_RESULTS, result)
    /\ pc' = IF NeedsBackup(result) THEN "notify" ELSE "delay"
    /\ UNCHANGED nonBatch
    /\ UNCHANGED << exit_status, db, tomorrow, appointments, i, attempt, room_name, result,
                    active_rooms, smsTask, emailTask, summary,
                    roomLog, placeLog, sleepLog, delayLog, smsCalls, emailCalls >>

\* gather starts its tasks in argument order: send_sms_backup first
StartSms ==
    /\ pc = "notify"
    /\ smsTask[aid] = "none"
    /\ smsTask' = [smsTask EXCEPT ![aid] = "running"]
    /\ smsCalls' = [smsCalls EXCEPT ![aid] = @ + 1]
    /\ UNCHANGED nonBatch
    /\ UNCHANGED << exit_status, db, tomorrow, pc, appointments, i, attempt, room_name, result,
                    CALL_RESULTS, active_rooms, emailTask, summary,
                    roomLog, placeLog, sleepLog, delayLog, emailCalls >>

StartEmail ==
    /\ pc = "notify"
    /\ smsTask[aid] # "none"
    /\ emailTask[aid] = "none"
    /\ emailTask' = [emailTask EXCEPT ![aid] = "running"]
    /\ emailCalls' = [emailCalls EXCEPT ![aid] = @ + 1]
    /\ UNCHANGED nonBatch
    /\ UNCHANGED << exit_status, db, tomorrow, pc, appointments, i, attempt, room_name, result,
                    CALL_RESULTS, active_rooms, smsTask, summary,
                    roomLog, placeLog, sleepLog, delayLog, smsCalls >>

\* A notifier task ends, returning or raising.  With return_exceptions the
\* exception is a value of gather's result list; without, it is raised in main.
FinishSms ==
    /\ pc = "notify"
    /\ smsTask[aid] = "running"
    /\ \E o \in NotifierOutcomes :
          /\ smsTask' = [smsTask EXCEPT ![aid] = o]
          /\ IF o = "raised" /\ ~GatherReturnExceptions
             THEN ExceptHandler("sms")
             ELSE UNCHANGED << CALL_RESULTS, i, pc >>
    /\ UNCHANGED nonBatch
    /\ UNCHANGED << exit_status, db, tomorrow, appointments, attempt, room_name, result,
                    active_rooms, emailTask, summary,
                    roomLog, placeLog, sleepLog, delayLog, smsCalls, emailCalls >>

FinishEmail ==
    /\ pc = "notify"
    /\ emailTask[aid] = "running"
    /\ \E o \in NotifierOutcomes :
          /\ emailTask' = [emailTask EXCEPT ![aid] = o]
          /\ IF o = "raised" /\ ~GatherReturnExceptions
             THEN ExceptHandler("email")
             ELSE UNCHANGED << CALL_RESULTS, i, pc >>
    /\ UNCHANGED nonBatch
    /\ UNCHANGED << exit_status, db, tomorrow, appointments, attempt, room_name, result,
                    active_rooms, smsTask, summary,
                    roomLog, placeLog, sleepLog, delayLog, smsCalls, emailCalls >>

\* gather returns once both tasks ended
GatherDone ==
    /\ pc = "notify"
    /\ smsTask[aid] \in NotifierOutcomes
    /\ emailTask[aid] \in NotifierOutcomes
    /\ pc' = "delay"
    /\ UNCHANGED nonBatch
    /\ UNCHANGED << exit_status, db, tomorrow, appointments, i, attempt, room_name, result,
                    CALL_RESULTS, active_rooms, smsTask, emailTask, summary,
                    roomLog, placeLog, sleepLog, delayLog, smsCalls, emailCalls >>

\* step 5 of the loop body: sleep unless this was the last appointment
InterCallDelay ==
    /\ pc = "delay"
    /\ delayLog' = IF i < Len(appointments) THEN Append(delayLog, inter_call_delay) ELSE delayLog
    /\ i' = i + 1
    /\ pc' = "loop"
    /\ UNCHANGED nonBatch
    /\ UNCHANGED << exit_status, db, tomorrow, appointments, attempt, room_name, result,
                    CALL_RESULTS, active_rooms, smsTask, emailTask, summary,
                    roomLog, placeLog, sleepLog, smsCalls, emailCalls >>

\* after the loop: print_summary(CALL_RESULTS), then await lk_api.close();
\* if print_summary or close raises, main's outer handler logs and re-raises
Summary ==
    /\ pc = "loop"
    /\ i > Len(appointments)
    /\ IF print_summary_raises(CALL_RESULTS)
       THEN pc' = "summary_failed" /\ summary' = summary
       ELSE /\ summary' = print_summary(CALL_RESULTS)
            /\ \E closed \in CloseOutcomes :
                  pc' = IF closed = "ok" THEN "done" ELSE "close_failed"
    /\ UNCHANGED nonBatch
    /\ UNCHANGED << exit_status, db, tomorrow, appointments, i, attempt, room_name, result,
                    CALL_RESULTS, active_rooms, smsTask, emailTask,
                    roomLog, placeLog, sleepLog, delayLog, smsCalls, emailCalls >>

\* the __main__ block: exit(1) if asyncio.run(main()) raised, else the
\* interpreter ends with status 0
exit_status_of(main_raised, results) == IF main_raised THEN 1 ELSE 0

\* asyncio.run(main()) is over: main returned, or raised
ProgramExit ==
    /\ pc \in {"done", "returned", "aborted", "api_failed", "close_failed", "summary_failed"}
    /\ exit_status = << >>
    /\ exit_status' = << exit_status_of(pc \in {"aborted", "api_failed", "close_failed",
                                                "summary_failed"},
                                         CALL_RESULTS) >>
    /\ UNCHANGED nonBatch
    /\ UNCHANGED << db, tomorrow, pc, appointments, i, attempt, room_name, result,
                    CALL_RESULTS, active_rooms, smsTask, emailTask, summary,
                    roomLog, placeLog, sleepLog, delayLog, smsCalls, emailCalls >>

Next ==
    \/ MainStart
    \/ CreateRoom
    \/ PlaceCallAttempt
    \/ RetrySleep
    \/ SaveResult
    \/ StartSms
    \/ StartEmail
    \/ FinishSms
    \/ FinishEmail
    \/ GatherDone
    \/ InterCallDelay
    \/ Summary
    \/ ProgramExit

Spec == Init /\ [][Next]_vars

\* The batch run on an event loop that keeps running main: every awaited
\* external call and sleep returns or raises, so a step that can be taken
\* is taken.
TerminationSpec == Init /\ [][Next]_vars /\ WF_vars(Next)


(***************************************************************************)
(* StateManager.lock, used by concurrent workers                           *)
(***************************************************************************)
\* SET key token NX PX timeout, as Lock.do_acquire issues it
RedisSetNx(store, key, token) ==
    IF store[key] = None THEN [store EXCEPT ![key] = token] ELSE store

\* a release by a plain DEL, whatever the key holds
RedisReleaseOwned_Unconditional(store, key, token) == [store EXCEPT ![key] = None]

\* a release that leaves the key in place
RedisReleaseOwned_NoDelete(store, key, token) == store

\* Lock.do_release's script: delete the key only if it holds the caller's token
RedisReleaseOwned(store, key, token) ==
    IF token # None /\ store[key] = token THEN [store EXCEPT ![key] = None] ELSE store

\* Lock.release: LockError without a local token, LockNotOwnedError when the
\* key no longer holds the caller's token, None when the key was deleted
ReleaseError(store, key, token) ==
    IF token = None THEN "LockError"
    ELSE IF store[key] # token THEN "LockNotOwnedError"
    ELSE None

\* the body is entered although acquire returned False
AfterAcquire_NoCheck(acquired) == "body"

\* `if not acquired: raise TimeoutError(...)`, else the yield
AfterAcquire(acquired) == IF acquired THEN "body" ELSE "TimeoutError"

\* a finally block that lets the error of lock.release() escape
FinallyOutcome_Propagates(own, relErr) == IF relErr # None THEN relErr ELSE own

\* finally: try release, `except Exception: pass`: what left the try block
\* (the body's return, its exception, or TimeoutError) is what the caller gets
FinallyOutcome(own, relErr) == own

\* a key without a TTL
KeyExpires_Never(ttl) == FALSE

\* the server removes a key when its TTL has run out
KeyExpires(ttl) == ttl <= 1

\* lock(): _ensure_connected, build the Lock, enter lock.acquire
LockEnter(w, r) ==
    /\ wpc[w] = "idle"
    /\ wpc' = [wpc EXCEPT ![w] = "acquiring"]
    /\ wres' = [wres EXCEPT ![w] = r]
    /\ waited' = [waited EXCEPT ![w] = 0]
    /\ wout' = [wout EXCEPT ![w] = None]
    /\ wbody' = [wbody EXCEPT ![w] = None]
    /\ wrel' = [wrel EXCEPT ![w] = None]
    /\ wsaw' = [wsaw EXCEPT ![w] = None]
    /\ UNCHANGED << lockStore, lockTtl, wtoken >>
    /\ UNCHANGED nonLock

\* lock.acquire's SET NX succeeded: the key is set with its TTL, the body is entered
LockAcquire(w) ==
    /\ wpc[w] = "acquiring"
    /\ lockStore[LockKey(wres[w])] = None
    /\ lockStore' = RedisSetNx(lockStore, LockKey(wres[w]), w)
    /\ lockTtl' = [lockTtl EXCEPT ![LockKey(wres[w])] = LockTimeout]
    /\ wtoken' = [wtoken EXCEPT ![w] = w]
    /\ wpc' = [wpc EXCEPT ![w] = AfterAcquire(TRUE)]
    /\ UNCHANGED << wres, waited, wout, wbody, wrel, wsaw >>
    /\ UNCHANGED nonLock

\* lock.acquire gave up after blocking_timeout and returned False:
\* TimeoutError is raised, and the finally block's release of the
\* never-acquired lock raises LockError, which is swallowed
LockAcquireTimeout(w) ==
    /\ wpc[w] = "acquiring"
    /\ lockStore[LockKey(wres[w])] # None
    /\ waited[w] >= LockTimeout
    /\ IF AfterAcquire(FALSE) = "body"
       THEN /\ wpc' = [wpc EXCEPT ![w] = "body"]
            /\ UNCHANGED << lockStore, wout, wrel, wsaw >>
       ELSE /\ lockStore' = RedisReleaseOwned(lockStore, LockKey(wres[w]), wtoken[w])
            /\ wsaw' = [wsaw EXCEPT ![w] = lockStore[LockKey(wres[w])]]
            /\ wrel' = [wrel EXCEPT ![w] =
                           ReleaseError(lockStore, LockKey(wres[w]), wtoken[w])]
            /\ wpc' = [wpc EXCEPT ![w] = "idle"]
            /\ wout' = [wout EXCEPT ![w] = FinallyOutcome(AfterAcquire(FALSE), wrel'[w])]
    /\ UNCHANGED << lockTtl, wres, wtoken, waited, wbody >>
    /\ UNCHANGED nonLock

\* the body ends (returning or raising); finally: lock.release(), errors swallowed
LockBodyExit(w, how) ==
    /\ wpc[w] = "body"
    /\ lockStore' = RedisReleaseOwned(lockStore, LockKey(wres[w]), wtoken[w])
    /\ lockTtl' = [lockTtl EXCEPT ![LockKey(wres[w])] =
                       IF lockStore'[LockKey(wres[w])] = None THEN 0 ELSE @]
    /\ wrel' = [wrel EXCEPT ![w] = ReleaseError(lockStore, LockKey(wres[w]), wtoken[w])]
    /\ wsaw' = [wsaw EXCEPT ![w] = lockStore[LockKey(wres[w])]]
    /\ wtoken' = [wtoken EXCEPT ![w] = None]
    /\ wpc' = [wpc EXCEPT ![w] = "idle"]
    /\ wbody' = [wbody EXCEPT ![w] = how]
    /\ wout' = [wout EXCEPT ![w] = FinallyOutcome(how, wrel'[w])]
    /\ UNCHANGED << wres, waited >>
    /\ UNCHANGED nonLock

\* One tick of time: keys whose TTL runs out are removed by the server,
\* and every worker blocked in acquire has waited one tick more.
Tick ==
    /\ \E k \in LockKeys : lockStore[k] # None
    /\ lockTtl' = [k \in LockKeys |-> IF lockTtl[k] > 0 THEN lockTtl[k] - 1 ELSE 0]
    /\ lockStore' = [k \in LockKeys |->
                        IF KeyExpires(lockTtl[k]) THEN None ELSE lockStore[k]]
    /\ waited' = [w \in Workers |->
                     IF wpc[w] = "acquiring" /\ waited[w] < LockTimeout
                     THEN waited[w] + 1 ELSE waited[w]]
    /\ UNCHANGED << wpc, wres, wtoken, wout, wbody, wrel, wsaw >>
    /\ UNCHANGED nonLock

LockNext ==
    \/ \E w \in Workers, r \in Resources : LockEnter(w, r)
    \/ \E w \in Workers : LockAcquire(w)
    \/ \E w \in Workers : LockAcquireTimeout(w)
    \/ \E w \in Workers, how \in {"returned", "raised"} : LockBodyExit(w, how)
    \/ Tick

\* The batch has not started while the lock is exercised: the fake DB as
\* the source writes it.
BatchIdle ==
    /\ BatchInit
    /\ tomorrow = "2025-10-05"
    /\ \A k \in DOMAIN db : db[k].date = "2025-10-05" /\ db[k].status = "Beklemede"

\* A row without one of its keys
WithoutKey(row, key) == [f \in DOMAIN row \ {key} |-> row[f]]

\* The batch over rows that are all due, each complete or lacking its
\* "phone" or its "time" key
MissingKeyInit ==
    /\ \E missing \in [DOMAIN FAKE_APPOINTMENTS_ROWS -> {"none", "phone", "time"}] :
          db = [k \in DOMAIN FAKE_APPOINTMENTS_ROWS |->
                   WithoutKey(RowWith(FAKE_APPOINTMENTS_ROWS[k], <<"2025-10-05", "Beklemede">>),
                              missing[k])]
    /\ tomorrow = "2025-10-05"
    /\ BatchLocalsInit

MissingKeySpecInit == MissingKeyInit /\ LockInit /\ RoomInit /\ StoreInit

\* The same run over rows that may lack a key
MissingKeySpec == MissingKeySpecInit /\ [][Next]_vars


LockSpecInit == BatchIdle /\ LockInit /\ RoomInit /\ StoreInit

LockSpec == LockSpecInit /\ [][LockNext]_vars

\* The worker's process dies inside the body: the finally block never runs
Crash(w) ==
    /\ wpc[w] = "body"
    /\ wpc' = [wpc EXCEPT ![w] = "crashed"]
    /\ UNCHANGED << lockStore, lockTtl, wres, wtoken, waited, wout, wbody, wrel, wsaw >>
    /\ UNCHANGED nonLock

LockCrashNext ==
    \/ LockNext
    \/ \E w \in Workers : Crash(w)

\* Time passes and the server expires keys; lock.acquire polls the key until
\* its blocking_timeout, so an acquire that stays possible is taken.
LockCrashFairness ==
    /\ WF_vars(Tick)
    /\ \A w \in Workers : WF_vars(LockAcquire(w))

LockCrashSpec == LockSpecInit /\ [][LockCrashNext]_vars /\ LockCrashFairness

(***************************************************************************)
(* create_room_for_appointment, called repeatedly on one CallManager       *)
(***************************************************************************)
MaxRoomCalls == 3

RoomCall(k, outcome) ==
    /\ Len(roomCalls) < MaxRoomCalls
    /\ LET r == create_room_for_appointment(db[k], outcome) IN
       /\ roomCalls' = Append(roomCalls,
                              [appointment_id |-> db[k].appointment_id,
                               outcome |-> outcome, ret |-> r.ret,
                               metadata |-> r.metadata])
       /\ active_rooms' = IF r.appended THEN Append(active_rooms, r.ret) ELSE active_rooms
    /\ UNCHANGED nonRoom

RoomNext == \E k \in DOMAIN db, outcome \in RoomOutcomes : RoomCall(k, outcome)

RoomSpecInit == BatchIdle /\ LockInit /\ RoomInit /\ StoreInit

RoomSpec == RoomSpecInit /\ [][RoomNext]_vars

(***************************************************************************)
(* The conversation event log: log_conversation_event and                  *)
(* get_conversation_events over one Redis stream per appointment           *)
(***************************************************************************)
\* the oldest d entries removed
DropOldest(entries, d) == SubSeq(entries, d + 1, Len(entries))

\* xadd(stream_key, entry, maxlen=1000): redis-py's xadd has approximate=True
\* as its default, so the command sent is XADD key MAXLEN ~ 1000.  With ~ the
\* server evicts whole nodes of oldest entries only, and never goes below
\* maxlen: of n entries it removes some d with n - d >= maxlen, which d
\* depends on the server's node size.  The set of the possible d.
XAddTrims(n, maxlen) == { d \in 0..n : n - d >= maxlen \/ d = 0 }

\* the entry that xadd stores: its server-made id and the event_type field
\* (the data and timestamp fields are not modelled)
StreamEntry(id, event_type) == [id |-> id, event_type |-> event_type]

\* log_conversation_event
LogConversationEvent(a, t) ==
    /\ Len(evCalls) < MaxEvents
    /\ streamClock' = streamClock + 1
    /\ \E d \in XAddTrims(Len(streams[StreamKey(a)]) + 1, StreamMaxLen) :
          streams' = [streams EXCEPT ![StreamKey(a)] =
                         DropOldest(Append(@, StreamEntry(streamClock', t)), d)]
    /\ evCalls' = Append(evCalls, [appointment_id |-> a, event_type |-> t,
                                   ret |-> streamClock'])
    /\ UNCHANGED evGot
    /\ UNCHANGED nonEvent

\* list(reversed(events))
Reversed(seq) == [k \in 1..Len(seq) |-> seq[Len(seq) - k + 1]]

\* XREVRANGE key + - COUNT count: the newest entries first, at most count
XRevRange(entries, count) ==
    [k \in 1..(IF count < Len(entries) THEN count ELSE Len(entries)) |->
        entries[Len(entries) - k + 1]]

\* the event dict built from one stream entry
EventOf(entry) == [id |-> entry.id, event_type |-> entry.event_type]

\* the events in the order XREVRANGE gave them
get_conversation_events_NotReversed(strs, a, count) ==
    LET entries == XRevRange(strs[StreamKey(a)], count) IN
    [k \in 1..Len(entries) |-> EventOf(entries[k])]

\* get_conversation_events
get_conversation_events(strs, a, count) ==
    LET entries == XRevRange(strs[StreamKey(a)], count) IN
    Reversed([k \in 1..Len(entries) |-> EventOf(entries[k])])

GetConversationEvents(a, count) ==
    /\ evGot' = << [appointment_id |-> a, count |-> count, at |-> streamClock,
                    ret |-> get_conversation_events(streams, a, count)] >>
    /\ UNCHANGED << streams, streamClock, evCalls >>
    /\ UNCHANGED nonEvent

EventNext ==
    \/ \E a \in AppointmentIds, t \in EventTypes : LogConversationEvent(a, t)
    \/ \E a \in AppointmentIds, count \in 1..MaxCount : GetConversationEvents(a, count)

EventSpecInit == BatchIdle /\ LockInit /\ RoomInit /\ StoreInit

EventSpec == EventSpecInit /\ [][EventNext]_vars

(***************************************************************************)
(* Call metrics: increment_call_metric and get_call_metrics                *)
(***************************************************************************)
\* The integers a counter can reach within MaxIncrements calls
IntRange == (0 - 2 * MaxIncrements)..(2 * MaxIncrements)

\* int(value) on the decimal string that Redis stores
IntOf(str) == CHOOSE n \in IntRange : ToString(n) = str

\* SET in place of INCRBY
RedisIncrBy_Set(store, key, value) == [store EXCEPT ![key] = ToString(value)]

\* DECRBY in place of INCRBY
RedisIncrBy_Decr(store, key, value) ==
    [store EXCEPT ![key] = ToString((IF @ = None THEN 0 ELSE IntOf(@)) - value)]

\* INCRBY key value: an absent key counts as 0; the sum is stored as a
\* decimal string
RedisIncrBy(store, key, value) ==
    [store EXCEPT ![key] = ToString((IF @ = None THEN 0 ELSE IntOf(@)) + value)]

\* increment_call_metric: returns what INCRBY replies, the new value
IncrementCallMetric(metric, value) ==
    /\ Len(incrCalls) < MaxIncrements
    /\ metricStore' = RedisIncrBy(metricStore, MetricKey(metric), value)
    /\ incrCalls' = Append(incrCalls, [metric |-> metric, value |-> value,
                                       ret |-> IntOf(metricStore'[MetricKey(metric)])])
    /\ UNCHANGED metricsGot
    /\ UNCHANGED nonMetric

\* `if value`: the reply of GET is None for an absent key, else a string
Truthy(value) == value # None /\ value # ""

\* get_call_metrics: the five GETs, taken together
get_call_metrics(store) ==
    [m \in { metric_names[k] : k \in DOMAIN metric_names } |->
        IF Truthy(store[MetricKey(m)]) THEN IntOf(store[MetricKey(m)]) ELSE 0]

GetCallMetrics ==
    /\ metricsGot' = << [at |-> Len(incrCalls), ret |-> get_call_metrics(metricStore)] >>
    /\ UNCHANGED << metricStore, incrCalls >>
    /\ UNCHANGED nonMetric

MetricNext ==
    \/ \E metric \in MetricArgs, value \in Deltas : IncrementCallMetric(metric, value)
    \/ GetCallMetrics

MetricSpecInit == BatchIdle /\ LockInit /\ RoomInit /\ StoreInit

MetricSpec == MetricSpecInit /\ [][MetricNext]_vars

(***************************************************************************)
(* The appointment cache (cache_appointment, get_cached_appointment,       *)
(* invalidate_appointment) and the status updates of agent.py and          *)
(* database_manager.py                                                     *)
(***************************************************************************)
\* The data that a caller caches for an appointment: a copy of its fields as
\* the store has them now, the date either as a string or as a date object
SnapshotsOf(adb, a) ==
    { [appointment_id |-> StrVal(a), status |-> StrVal(adb[a]), date |-> d] :
         d \in {StrVal("2025-10-05"), DateVal("2025-10-05")} }

\* cache_appointment: SETEX cache_key cache_ttl json.dumps(data, default=str)
CacheAppointment(a) ==
    \E data \in SnapshotsOf(agent_db, a) :
        /\ cacheStore' = [cacheStore EXCEPT ![CacheKey(a)] = << JsonDumps(data) >>]
        /\ cacheTtl' = [cacheTtl EXCEPT ![CacheKey(a)] = CacheTtl]
        /\ cacheLive' = [cacheLive EXCEPT ![a] = << data >>]
        /\ UNCHANGED << agentVars, dbUpdateRet, cacheGot >>
        /\ UNCHANGED nonCache

\* every key is a miss
get_cached_appointment_AlwaysMiss(store, a) == << >>

\* get_cached_appointment: GET cache_key; `if cached: return json.loads(cached)`,
\* else None (written << >>)
get_cached_appointment(store, a) ==
    IF store[CacheKey(a)] # << >>
    THEN << JsonLoads(store[CacheKey(a)][1]) >>
    ELSE << >>

GetCachedAppointment(a) ==
    /\ cacheGot' = << [appointment_id |-> a,
                       ret |-> get_cached_appointment(cacheStore, a),
                       live |-> cacheLive[a],
                       status |-> agent_db[a]] >>
    /\ UNCHANGED << agentVars, dbUpdateRet,
                    cacheStore, cacheTtl, cacheLive >>
    /\ UNCHANGED nonCache

\* invalidate_appointment: DEL cache_key
InvalidateAppointment(a) ==
    /\ cacheStore' = [cacheStore EXCEPT ![CacheKey(a)] = << >>]
    /\ cacheTtl' = [cacheTtl EXCEPT ![CacheKey(a)] = 0]
    /\ cacheLive' = [cacheLive EXCEPT ![a] = << >>]
    /\ UNCHANGED << agentVars, dbUpdateRet, cacheGot >>
    /\ UNCHANGED nonCache

\* One tick of time for the cache keys: the server removes those whose TTL
\* has run out
CacheTick ==
    /\ \E k \in CacheKeys : cacheStore[k] # << >>
    /\ cacheTtl' = [k \in CacheKeys |-> IF cacheTtl[k] > 0 THEN cacheTtl[k] - 1 ELSE 0]
    /\ cacheStore' = [k \in CacheKeys |->
                         IF KeyExpires(cacheTtl[k]) THEN << >> ELSE cacheStore[k]]
    /\ cacheLive' = [a \in AppointmentIds |->
                        IF KeyExpires(cacheTtl[CacheKey(a)]) THEN << >> ELSE cacheLive[a]]
    /\ UNCHANGED << agentVars, dbUpdateRet, cacheGot >>
    /\ UNCHANGED nonCache

\* status.startswith('Ertelendi')
StartsWithErtelendi(status) == Len(status) >= 1 /\ status[1] = "Ertelendi"

\* status in valid_statuses or status.startswith('Ertelendi')
IsValidStatus_ListOnly(status) == status \in valid_statuses

IsValidStatus(status) == status \in valid_statuses \/ StartsWithErtelendi(status)

\* CallMetrics.update(status)
CallMetricsUpdate_KnownOnly(m, status) ==
    CASE status = "confirmed" -> [m EXCEPT !.total_calls = @ + 1, !.confirmed = @ + 1]
      [] status = "cancelled" -> [m EXCEPT !.total_calls = @ + 1, !.cancelled = @ + 1]
      [] status = "rescheduled" -> [m EXCEPT !.total_calls = @ + 1, !.rescheduled = @ + 1]
      [] status = "no_response" -> [m EXCEPT !.total_calls = @ + 1, !.no_response = @ + 1]
      [] OTHER -> m

CallMetricsUpdate(m, status) ==
    LET t == [m EXCEPT !.total_calls = @ + 1] IN
    CASE status = "confirmed" -> [t EXCEPT !.confirmed = @ + 1]
      [] status = "cancelled" -> [t EXCEPT !.cancelled = @ + 1]
      [] status = "rescheduled" -> [t EXCEPT !.rescheduled = @ + 1]
      [] status = "no_response" -> [t EXCEPT !.no_response = @ + 1]
      [] OTHER -> t

\* a log that keeps its latest entry only
log_conversation_event_KeepLast(logs, self_id, event_type, data) ==
    << [timestamp |-> "isoformat", appointment_id |-> self_id,
        event_type |-> event_type, data |-> data] >>

\* Assistant._log_conversation_event: the entry holds the Assistant's own
\* appointment id, the event type and the data; timestamp stands for
\* datetime.now().isoformat()
log_conversation_event(logs, self_id, event_type, data) ==
    Append(logs, [timestamp |-> "isoformat", appointment_id |-> self_id,
                  event_type |-> event_type, data |-> data])

\* The counter update_appointment_status feeds for a stored status: the
\* if/elif chain after the store is written
MetricOf(status) ==
    IF status = <<"Onaylandi">> THEN <<"confirmed">>
    ELSE IF status = <<"Iptal", "Edildi">> THEN <<"cancelled">>
    ELSE IF StartsWithErtelendi(status) THEN <<"rescheduled">>
    ELSE << >>

\* What Assistant.update_appointment_status returns: the empty id is refused
\* first, then a status that is not valid, then an id the store does not have
update_appointment_status_FromPending(adb, appointment_id, status) ==
    IF appointment_id = ""
    THEN [success |-> FALSE, error |-> <<"Appointment ID gerekli">>]
    ELSE IF ~IsValidStatus(status)
    THEN [success |-> FALSE, error |-> <<"Gecersiz durum">>]
    ELSE IF appointment_id \in DOMAIN adb /\ adb[appointment_id] = <<"Beklemede">>
    THEN [success |-> TRUE, error |-> << >>]
    ELSE [success |-> FALSE, error |-> <<"Randevu bulunamadi">>]

update_appointment_status(adb, appointment_id, status) ==
    IF appointment_id = ""
    THEN [success |-> FALSE, error |-> <<"Appointment ID gerekli">>]
    ELSE IF ~IsValidStatus(status)
    THEN [success |-> FALSE, error |-> <<"Gecersiz durum">>]
    ELSE IF appointment_id \in DOMAIN adb
    THEN [success |-> TRUE, error |-> << >>]
    ELSE [success |-> FALSE, error |-> <<"Randevu bulunamadi">>]

\* Assistant.update_appointment_status: a call that is refused changes
\* nothing; one that succeeds stores the status, counts it in call_metrics
\* and logs it.  The StateManager is not called.
UpdateAppointmentStatus(a, status) ==
    LET r == update_appointment_status(agent_db, a, status) IN
    /\ Len(CONVERSATION_LOGS) < MaxStatusUpdates
    /\ IF r.success
       THEN /\ agent_db' = [agent_db EXCEPT ![a] = status]
            /\ call_metrics' =
                  IF MetricOf(status) = << >> THEN call_metrics
                  ELSE CallMetricsUpdate(call_metrics, MetricOf(status)[1])
            /\ metricCalls' = metricCalls \o MetricOf(status)
            /\ CONVERSATION_LOGS' =
                  log_conversation_event(CONVERSATION_LOGS, self_appointment_id,
                      "appointment_updated",
                      [appointment_id |-> a, new_status |-> status])
       ELSE UNCHANGED << agent_db, call_metrics, metricCalls, CONVERSATION_LOGS >>
    /\ agentRet' = << [tool |-> "update_appointment_status",
                        args |-> << a, status >>, ret |-> r] >>
    /\ UNCHANGED << self_appointment_id, no_response_count, sessionClosed, lookups >>
    /\ UNCHANGED << dbUpdateRet, cacheStore, cacheTtl, cacheLive, cacheGot >>
    /\ UNCHANGED nonCache

\* DatabaseManager.update_appointment_status: in simulation mode it logs and
\* returns True; otherwise its statements are commented out and it returns
\* True as well.  Neither path writes a store or calls the StateManager.
DbUpdateAppointmentStatus(a, status) ==
    /\ dbUpdateRet' = << TRUE >>
    /\ UNCHANGED << agentVars, cacheStore, cacheTtl, cacheLive, cacheGot >>
    /\ UNCHANGED nonCache

CacheNext ==
    \/ \E a \in AppointmentIds : CacheAppointment(a)
    \/ \E a \in AppointmentIds : GetCachedAppointment(a)
    \/ \E a \in AppointmentIds : InvalidateAppointment(a)
    \/ CacheTick
    \/ \E a \in AppointmentIds, status \in StatusArgs : UpdateAppointmentStatus(a, status)
    \/ \E a \in AppointmentIds, status \in StatusArgs : DbUpdateAppointmentStatus(a, status)

CacheSpecInit == BatchIdle /\ LockInit /\ RoomInit /\ StoreInit

CacheSpec == CacheSpecInit /\ [][CacheNext]_vars

(***************************************************************************)
(* The StateManager's connection (state_manager.py)                        *)
(***************************************************************************)
\* a guard that looks at the client only
ensure_connected_raises_ClientOnly(conn, client) == client = None

\* _ensure_connected: `if not self._connected or not self.redis: raise`
ensure_connected_raises(conn, client) == ~conn \/ client = None

\* The first command an operation sends to Redis once it is past the guard
FirstCommand(op) ==
    CASE op = "cache_appointment" -> "SETEX"
      [] op = "get_cached_appointment" -> "GET"
      [] op = "invalidate_appointment" -> "DEL"
      [] op = "log_conversation_event" -> "XADD"
      [] op = "get_conversation_events" -> "XREVRANGE"
      [] op = "lock" -> "SET NX"
      [] op = "publish_status_update" -> "PUBLISH"
      [] op = "increment_call_metric" -> "INCRBY"
      [] OTHER -> "GET"

\* connect(): the client is built and assigned, then PING; _connected is set
\* only if PING returned, otherwise the exception is logged and re-raised
Connect ==
    /\ Len(redisLog) < MaxRedisCommands
    /\ sm_redis' = "client"
    /\ redisLog' = Append(redisLog, "PING")
    /\ \E ping \in {"ok", "raises"} :
          IF ping = "ok"
          THEN /\ sm_connected' = TRUE
               /\ connHist' = "up"
               /\ smRet' = << [op |-> "connect", raised |-> "none"] >>
          ELSE /\ UNCHANGED << sm_connected, connHist >>
               /\ smRet' = << [op |-> "connect", raised |-> "ConnectionError"] >>
    /\ UNCHANGED nonConn

\* disconnect(): with a client, close it and clear _connected (not reached
\* if close raises); without one, nothing
Disconnect ==
    /\ IF sm_redis # None
       THEN \E close \in {"ok", "raises"} :
               IF close = "ok"
               THEN /\ sm_connected' = FALSE
                    /\ connHist' = "down"
                    /\ smRet' = << [op |-> "disconnect", raised |-> "none"] >>
               ELSE /\ UNCHANGED << sm_connected, connHist >>
                    /\ smRet' = << [op |-> "disconnect", raised |-> "ConnectionError"] >>
       ELSE /\ connHist' = "down"
            /\ sm_connected' = sm_connected
            /\ smRet' = << [op |-> "disconnect", raised |-> "none"] >>
    /\ UNCHANGED << sm_redis, redisLog >>
    /\ UNCHANGED nonConn

\* An operation of the StateManager, as far as the connection goes: the
\* guard raises RuntimeError before anything is sent, or the operation goes
\* on to its first Redis command.  What the commands do to the data is the
\* subject of the cache, event, lock and metric parts.
StateManagerOp(op) ==
    /\ IF ensure_connected_raises(sm_connected, sm_redis)
       THEN /\ smRet' = << [op |-> op, raised |-> "RuntimeError"] >>
            /\ redisLog' = redisLog
       ELSE /\ Len(redisLog) < MaxRedisCommands
            /\ smRet' = << [op |-> op, raised |-> "none"] >>
            /\ redisLog' = Append(redisLog, FirstCommand(op))
    /\ UNCHANGED << sm_connected, sm_redis, connHist >>
    /\ UNCHANGED nonConn

ConnNext ==
    \/ Connect
    \/ Disconnect
    \/ \E op \in StateManagerOps : StateManagerOp(op)

ConnSpecInit ==
    /\ BatchIdle /\ LockInit /\ RoomInit
    /\ EventInit /\ MetricInit /\ AgentInit /\ CacheInit
    /\ ConstructedInit

ConnSpec == ConnSpecInit /\ [][ConnNext]_vars

(***************************************************************************)
(* The Assistant's tools (agent.py)                                        *)
(***************************************************************************)
\* The customer_name and time columns of agent.py's FAKE_APPOINTMENTS_DB
AgentRow(a) ==
    FAKE_APPOINTMENTS_ROWS[CHOOSE k \in DOMAIN FAKE_APPOINTMENTS_ROWS :
                               FAKE_APPOINTMENTS_ROWS[k].appointment_id = a]

\* What Assistant.get_appointment_details returns: None and the empty string
\* are refused, an id of the store is found with its name, time and current
\* status, any other id is not found
get_appointment_details_NoGuard(adb, appointment_id) ==
    IF appointment_id \in DOMAIN adb
    THEN [status |-> "Bulundu", error |-> << >>,
          customer_name |-> << AgentRow(appointment_id).customer_name >>,
          time |-> << AgentRow(appointment_id).time >>,
          current_status |-> << adb[appointment_id] >>]
    ELSE [status |-> "Bulundu", error |-> << >>,
          customer_name |-> << >>, time |-> << >>, current_status |-> << >>]

get_appointment_details(adb, appointment_id) ==
    IF appointment_id = None \/ appointment_id = ""
    THEN [status |-> "Hata", error |-> <<"Gecersiz randevu ID">>,
          customer_name |-> << >>, time |-> << >>, current_status |-> << >>]
    ELSE IF appointment_id \in DOMAIN adb
    THEN [status |-> "Bulundu", error |-> << >>,
          customer_name |-> << AgentRow(appointment_id).customer_name >>,
          time |-> << AgentRow(appointment_id).time >>,
          current_status |-> << adb[appointment_id] >>]
    ELSE [status |-> "Hata", error |-> <<"Randevu bulunamadi.">>,
          customer_name |-> << >>, time |-> << >>, current_status |-> << >>]

\* Assistant.get_appointment_details: the coroutine has no await in it, so a
\* lookup is one step however many lookups are gathered
GetAppointmentDetails(a) ==
    /\ lookups < MaxLookups
    /\ lookups' = lookups + 1
    /\ agentRet' = << [tool |-> "get_appointment_details", args |-> << a >>,
                        ret |-> get_appointment_details(agent_db, a)] >>
    /\ UNCHANGED << agent_db, call_metrics, CONVERSATION_LOGS, self_appointment_id,
                    no_response_count, sessionClosed, metricCalls >>
    /\ UNCHANGED << dbUpdateRet, cacheStore, cacheTtl, cacheLive, cacheGot >>
    /\ UNCHANGED nonCache

\* The body of Assistant.end_call: the reason is counted in call_metrics,
\* "call_ended" is logged and the session is closed.  The duration, a reading
\* of the clock, is left out of the log entry and of call_metrics.
end_call(reason) ==
    /\ call_metrics' = CallMetricsUpdate(call_metrics, reason)
    /\ metricCalls' = Append(metricCalls, reason)
    /\ CONVERSATION_LOGS' =
          log_conversation_event(CONVERSATION_LOGS, self_appointment_id,
                                 "call_ended", [reason |-> reason])
    /\ sessionClosed' = TRUE

\* Assistant.end_call called as a tool
EndCall(reason) ==
    /\ Len(metricCalls) < MaxMetricUpdates
    /\ end_call(reason)
    /\ agentRet' = << [tool |-> "end_call", args |-> << reason >>,
                        ret |-> [reason |-> reason]] >>
    /\ UNCHANGED << agent_db, self_appointment_id, no_response_count, lookups >>
    /\ UNCHANGED << dbUpdateRet, cacheStore, cacheTtl, cacheLive, cacheGot >>
    /\ UNCHANGED nonCache

\* self.no_response_count >= self.max_no_response
should_end_Above(count) == count > max_no_response

should_end(count) == count >= max_no_response

\* Assistant.handle_no_response: the count goes up by one; from
\* max_no_response on the call is ended with reason "no_response"
HandleNoResponse ==
    /\ no_response_count < MaxNoResponseCalls
    /\ no_response_count' = no_response_count + 1
    /\ IF should_end(no_response_count')
       THEN end_call("no_response")
       ELSE UNCHANGED << call_metrics, metricCalls, CONVERSATION_LOGS, sessionClosed >>
    /\ agentRet' = << [tool |-> "handle_no_response", args |-> << >>,
                        ret |-> [should_end |-> should_end(no_response_count')]] >>
    /\ UNCHANGED << agent_db, self_appointment_id, lookups >>
    /\ UNCHANGED << dbUpdateRet, cacheStore, cacheTtl, cacheLive, cacheGot >>
    /\ UNCHANGED nonCache

AgentNext ==
    \/ \E a \in LookupArgs : GetAppointmentDetails(a)
    \/ \E a \in IdArgs, status \in AgentStatusArgs : UpdateAppointmentStatus(a, status)
    \/ \E reason \in EndReasons : EndCall(reason)
    \/ HandleNoResponse

\* the Assistant is constructed with the id of the room metadata, or None
AgentSpecInit ==
    /\ BatchIdle /\ LockInit /\ RoomInit
    /\ EventInit /\ MetricInit /\ CacheInit /\ ConnectedInit
    /\ AgentGlobalsInit
    /\ self_appointment_id \in SelfIds

AgentSpec == AgentSpecInit /\ [][AgentNext]_vars

(***************************************************************************)
(* Properties                                                              *)
(***************************************************************************)
Range(s) == { s[k] : k \in DOMAIN s }

\* the records CALL_RESULTS holds for appointment a, in order
RecordsOf(a) == SelectSeq(CALL_RESULTS, LAMBDA r : r.appointment_id = a)

\* main has left the loop body of appointment a
Finished(a) == \E k \in DOMAIN appointments : appointments[k].appointment_id = a /\ k < i

\* main is in the loop body of appointment a
Current(a) == i \in DOMAIN appointments /\ appointments[i].appointment_id = a

\* place_call_with_retry has returned for appointment a
Returned(a) == Finished(a) \/ (Current(a) /\ pc \in {"save", "notify", "delay"})

\* the due appointments, read off the fake DB
DueIds ==
    { db[k].appointment_id :
        k \in { j \in DOMAIN db : db[j].date = tomorrow /\ db[j].status = "Beklemede" } }

ExpectedExhausted(a) ==
    [success |-> FALSE, appointment_id |-> a, attempts |-> max_retries,
     error |-> "Max retry exceeded"]

ExpectedSuccess(a, k) == [success |-> TRUE, appointment_id |-> a, attempts |-> k]

ExpectedRoomName ==
    [a \in AppointmentIds |->
        IF a = "randevu_101" THEN "confirmation_call_randevu_101"
        ELSE "confirmation_call_randevu_102"]

\* the provider's messages that report "already exists", in any case
AlreadyExistsErrors == { <<"room", "already", "exists">>, <<"Room", "Already", "Exists">> }

\* C1 (LockSpec): no two workers are inside the body protected by
\* StateManager.lock for the same resource at the same time, also when the
\* lock's timeout elapses while the holder is still inside.
C1_MutualExclusion ==
    \A w1 \in Workers, w2 \in Workers :
        (w1 # w2 /\ wpc[w1] = "body" /\ wpc[w2] = "body") => wres[w1] # wres[w2]

\* C2 (Spec): whenever main is inside the retry loop of an appointment (about
\* to place an attempt, or sleeping between two), the key of the lock
\* call:<appointment_id> is set in the lock store.
C2_AttemptsUnderLock ==
    pc \in {"place", "retry_sleep"} => lockStore[LockKey("call:" \o aid)] # None

\* C3 (Spec): when every attempt failed, place_call_with_retry has made exactly
\* max_retries attempts when it returns, it returns success=false,
\* attempts=max_retries, error="Max retry exceeded", and exactly that result
\* is what is recorded for the appointment.
C3_RetryExhaustion ==
    \A a \in AppointmentIds :
        (placeLog[a] # << >> /\ "ok" \notin Range(placeLog[a]) /\ Returned(a)) =>
            /\ Len(placeLog[a]) = max_retries
            /\ (Current(a) /\ pc = "save") => result = ExpectedExhausted(a) /\ RecordsOf(a) = << >>
            /\ ~(Current(a) /\ pc = "save") => RecordsOf(a) = << ExpectedExhausted(a) >>

C3_Witness ==
    \E a \in AppointmentIds :
        /\ Finished(a)
        /\ Len(placeLog[a]) = max_retries
        /\ "ok" \notin Range(placeLog[a])
        /\ "raise" \in Range(placeLog[a])
        /\ "fail" \in Range(placeLog[a])

\* C4 (Spec): when the provider succeeds on attempt k, that attempt is the
\* last one made (exactly k attempts, none after the success), and
\* place_call_with_retry returns success=true with attempts=k.
C4_ShortCircuit ==
    \A a \in AppointmentIds : \A k \in DOMAIN placeLog[a] :
        placeLog[a][k] = "ok" =>
            /\ k = Len(placeLog[a])
            /\ k <= max_retries
            /\ Returned(a)
            /\ (Current(a) /\ pc = "save") => result = ExpectedSuccess(a, k)
            /\ ~(Current(a) /\ pc = "save") => RecordsOf(a) = << ExpectedSuccess(a, k) >>

C4_Witness ==
    \E a \in AppointmentIds :
        /\ Finished(a)
        /\ placeLog[a] = << "fail", "ok" >>
        /\ RecordsOf(a) = << ExpectedSuccess(a, 2) >>

\* C5 (Spec): for an appointment whose call was placed, once main is done
\* with it send_sms_backup and send_email_backup have each been invoked
\* exactly once if the recorded call result has success=false, and neither
\* has been invoked if it has success=true; no notifier is ever invoked twice.
C5_BackupEscalation ==
    \A a \in AppointmentIds :
        /\ smsCalls[a] <= 1 /\ emailCalls[a] <= 1
        /\ (Finished(a) /\ placeLog[a] # << >>) =>
              /\ Len(RecordsOf(a)) = 1
              /\ RecordsOf(a)[1].success => (smsCalls[a] = 0 /\ emailCalls[a] = 0)
              /\ ~RecordsOf(a)[1].success => (smsCalls[a] = 1 /\ emailCalls[a] = 1)
        /\ "ok" \in Range(placeLog[a]) => (smsCalls[a] = 0 /\ emailCalls[a] = 0)

C5_Witness ==
    \E a \in AppointmentIds, b \in AppointmentIds :
        /\ Finished(a) /\ Finished(b)
        /\ "ok" \in Range(placeLog[a]) /\ smsCalls[a] = 0 /\ emailCalls[a] = 0
        /\ Len(placeLog[b]) = max_retries /\ "ok" \notin Range(placeLog[b])
        /\ smsCalls[b] = 1 /\ emailCalls[b] = 1

\* C6 (Spec): when room provisioning failed with an error other than
\* "already exists", then once main is done with the appointment a failed
\* record is saved for it, no call attempt was made, and both backup
\* notifications were triggered for it.
C6_RoomFailureEscalates ==
    \A a \in AppointmentIds :
        (/\ Finished(a)
         /\ roomLog[a] # << >>
         /\ roomLog[a][1].raised
         /\ roomLog[a][1].msg \notin AlreadyExistsErrors) =>
            /\ Len(RecordsOf(a)) = 1
            /\ ~RecordsOf(a)[1].success
            /\ placeLog[a] = << >>
            /\ smsCalls[a] = 1
            /\ emailCalls[a] = 1

\* C7 (Spec): CALL_RESULTS never holds two records of one appointment, holds
\* exactly one for every appointment main is done with, and when the run has
\* ended it holds exactly one record for each due appointment and none for
\* any other.
C7_ExactlyOneRecord ==
    /\ \A a \in AppointmentIds : Len(RecordsOf(a)) <= 1
    /\ \A a \in AppointmentIds : Finished(a) => Len(RecordsOf(a)) = 1
    /\ pc \in {"done", "returned"} =>
          \A a \in AppointmentIds : Len(RecordsOf(a)) = (IF a \in DueIds THEN 1 ELSE 0)

C7_Witness ==
    /\ pc = "done"
    /\ Len(CALL_RESULTS) = 2
    /\ \E a \in AppointmentIds, b \in AppointmentIds :
          /\ RecordsOf(a) = << [success |-> FALSE, appointment_id |-> a, attempts |-> 0,
                                error |-> "Room creation failed"] >>
          /\ RecordsOf(b) = << ExpectedExhausted(b) >>
          /\ smsTask[b] = "raised"

\* C8 (Spec): a backup notification of an appointment is dispatched only
\* after a call result of that appointment has been recorded.
C8_NotifyAfterRecord ==
    \A a \in AppointmentIds :
        (smsCalls[a] > 0 \/ emailCalls[a] > 0 \/ smsTask[a] # "none" \/ emailTask[a] # "none")
            => Len(RecordsOf(a)) >= 1

\* the email notification ended while the SMS notification was still running
C8_Witness ==
    \E a \in AppointmentIds :
        /\ Current(a) /\ pc = "notify"
        /\ emailTask[a] = "done"
        /\ smsTask[a] = "running"
        /\ Len(RecordsOf(a)) = 1

\* C9 (Spec): when a backup notifier of an appointment raised, main stays on
\* its normal path (it waits for the gather, then goes on with the next
\* appointment), the appointment keeps the one record of its failed call,
\* the other channel has been invoked by the time main is done with the
\* appointment, and a run that ends has recorded every due appointment.
C9_NotifierErrorsSwallowed ==
    \A a \in AppointmentIds :
        (smsTask[a] = "raised" \/ emailTask[a] = "raised") =>
            /\ RecordsOf(a) = << ExpectedExhausted(a) >>
            /\ Finished(a) \/ (Current(a) /\ pc \in {"notify", "delay"})
            /\ Finished(a) => (smsCalls[a] = 1 /\ emailCalls[a] = 1)
            /\ Finished(a) => (smsTask[a] \in NotifierOutcomes /\ emailTask[a] \in NotifierOutcomes)
            /\ pc = "done" => \A d \in DueIds : Len(RecordsOf(d)) = 1

\* the SMS notifier of the first appointment raised before the email notifier
\* was started, and the second appointment was processed to its end
C9_Witness ==
    /\ pc = "done"
    /\ Len(appointments) = 2
    /\ smsTask[appointments[1].appointment_id] = "raised"
    /\ emailTask[appointments[1].appointment_id] = "done"
    /\ placeLog[appointments[2].appointment_id] # << >>
    /\ Len(CALL_RESULTS) = 2

\* C10 (RoomSpec): create_room_for_appointment returns either None or the
\* name confirmation_call_<appointment_id>; it returns the name when the room
\* was created and when the provider raised "already exists" (in any case),
\* so two such calls for one appointment return the same name.
C10_IdempotentRoomCreation ==
    \A k \in DOMAIN roomCalls :
        LET c == roomCalls[k] IN
        /\ c.ret \in {ExpectedRoomName[c.appointment_id], None}
        /\ ~c.outcome.raised => c.ret = ExpectedRoomName[c.appointment_id]
        /\ (c.outcome.raised /\ c.outcome.msg \in AlreadyExistsErrors)
              => c.ret = ExpectedRoomName[c.appointment_id]
        /\ \A j \in DOMAIN roomCalls :
              (/\ roomCalls[j].appointment_id = c.appointment_id
               /\ (~roomCalls[j].outcome.raised \/ roomCalls[j].outcome.msg \in AlreadyExistsErrors)
               /\ (~c.outcome.raised \/ c.outcome.msg \in AlreadyExistsErrors))
                  => roomCalls[j].ret = c.ret /\ c.ret # None

\* a room is created, and a second call for the same appointment meets
\* "Already Exists"
C10_Witness ==
    /\ Len(roomCalls) >= 2
    /\ roomCalls[1].appointment_id = roomCalls[2].appointment_id
    /\ ~roomCalls[1].outcome.raised
    /\ roomCalls[2].outcome.raised
    /\ roomCalls[2].outcome.msg = <<"Room", "Already", "Exists">>
    /\ roomCalls[2].ret = roomCalls[1].ret
    /\ roomCalls[2].ret = "confirmation_call_" \o roomCalls[2].appointment_id

C12_AcquireTimeout ==
    [][\A w \in Workers :
          (wpc[w] = "acquiring" /\ wpc'[w] # "acquiring") =>
              IF lockStore[LockKey(wres[w])] = None
              THEN wpc'[w] = "body"
              ELSE /\ waited[w] >= LockTimeout
                   /\ wpc'[w] = "idle"
                   /\ wout'[w] = "TimeoutError"
                   /\ wbody'[w] = None
                   /\ lockStore' = lockStore]_vars

\* a worker got TimeoutError while the other one was inside the body
C12_Witness ==
    \E w1 \in Workers, w2 \in Workers :
        /\ wpc[w1] = "idle" /\ wout[w1] = "TimeoutError" /\ wbody[w1] = None
        /\ wpc[w2] = "body" /\ wres[w2] = wres[w1]
        /\ lockStore[LockKey(wres[w2])] = w2

\* C13 (LockSpec): best-effort release.  When the lock had already expired
\* at the time the block was left (lock.release() raised LockNotOwnedError),
\* the caller observes the body's own outcome, return or exception, and not
\* the release error.
C13_BestEffortRelease ==
    \A w \in Workers :
        wrel[w] = "LockNotOwnedError" =>
            /\ wbody[w] \in {"returned", "raised"}
            /\ wout[w] = wbody[w]

\* both outcomes of the body have been observed after an expired lock
C13_Witness ==
    \E w1 \in Workers, w2 \in Workers :
        /\ wrel[w1] = "LockNotOwnedError" /\ wout[w1] = "raised"
        /\ wrel[w2] = "LockNotOwnedError" /\ wout[w2] = "returned"

\* the holder w of resource r crashed inside the body
CrashedHolding(w, r) == wpc[w] = "crashed" /\ wres[w] = r

\* C14 (LockCrashSpec): no permanent wedge.  When a worker has crashed inside
\* the body without releasing, its key does not stay: it expires, and a
\* worker that keeps trying to acquire the same resource gets into the body.
C14_NoPermanentWedge ==
    \A w1 \in Workers, w2 \in Workers, r \in Resources :
        /\ (CrashedHolding(w1, r) /\ lockStore[LockKey(r)] = w1)
               ~> (lockStore[LockKey(r)] # w1)
        /\ (<>CrashedHolding(w1, r) /\ []<>(wpc[w2] = "acquiring" /\ wres[w2] = r))
               => <>(CrashedHolding(w1, r) /\ wpc[w2] = "body" /\ wres[w2] = r
                       /\ lockStore[LockKey(r)] = w2)

\* the crashed worker's key expired and the other worker is inside the body
C14_Witness ==
    \E w1 \in Workers, w2 \in Workers :
        /\ CrashedHolding(w1, wres[w2])
        /\ wpc[w2] = "body" /\ lockStore[LockKey(wres[w2])] = w2

Min(a, b) == IF a < b THEN a ELSE b

\* the entries that the log_conversation_event calls for appointment a
\* appended, in the order of the calls
AppendedTo(a) ==
    LET mine == SelectSeq(evCalls, LAMBDA c : c.appointment_id = a) IN
    [k \in 1..Len(mine) |-> StreamEntry(mine[k].ret, mine[k].event_type)]

\* the last m elements of a sequence
LastN(seq, m) == SubSeq(seq, Len(seq) - m + 1, Len(seq))

\* C15 (EventSpec): after n log_conversation_event calls for an appointment
\* its stream holds exactly the min(n, maxlen) most recent entries, in append
\* order: with one call more than maxlen, the first entry has been evicted.
C15_EventLogBound ==
    \A a \in AppointmentIds :
        streams[StreamKey(a)] =
            LastN(AppendedTo(a), Min(Len(AppendedTo(a)), StreamMaxLen))

\* C16 (EventSpec): get_conversation_events(a, count) returns the last
\* min(count, length) entries of a's stream, oldest first, and every event
\* returned was logged for a.  (Stated for the read that no append has
\* followed yet, so that the stream is the one that was read.)
C16_RecentEvents ==
    \A k \in DOMAIN evGot :
        LET g == evGot[k]
            log == streams[StreamKey(g.appointment_id)]
            expect == LastN(log, Min(g.count, Len(log)))
        IN g.at = streamClock =>
           /\ g.ret = [j \in 1..Len(expect) |-> EventOf(expect[j])]
           /\ \A j \in DOMAIN g.ret :
                 \E c \in DOMAIN evCalls :
                    /\ evCalls[c].appointment_id = g.appointment_id
                    /\ evCalls[c].ret = g.ret[j].id
           /\ \A j \in DOMAIN g.ret : j > 1 => g.ret[j - 1].id < g.ret[j].id

\* a read with count below the length of a stream of two entries or more,
\* while the other appointment's stream is not empty
C16_Witness ==
    \E k \in DOMAIN evGot :
        /\ evGot[k].at = streamClock
        /\ Len(evGot[k].ret) >= 2
        /\ evGot[k].count < Len(streams[StreamKey(evGot[k].appointment_id)])
        /\ \E b \in AppointmentIds :
              b # evGot[k].appointment_id /\ streams[StreamKey(b)] # << >>

EnumeratedMetrics == { metric_names[k] : k \in DOMAIN metric_names }

\* the sum of the deltas that the first n increment calls applied to metric m
RECURSIVE SumDeltas(_, _)
SumDeltas(m, n) ==
    IF n = 0 THEN 0
    ELSE SumDeltas(m, n - 1) + (IF incrCalls[n].metric = m THEN incrCalls[n].value ELSE 0)

\* C17 (MetricSpec): every increment_call_metric call returns the new value
\* of its counter, and get_call_metrics returns exactly the five enumerated
\* names, each with the sum of the deltas applied to it so far, 0 when it
\* was never incremented.
C17_MetricCounters ==
    /\ \A n \in DOMAIN incrCalls : incrCalls[n].ret = SumDeltas(incrCalls[n].metric, n)
    /\ \A k \in DOMAIN metricsGot :
          /\ DOMAIN metricsGot[k].ret = EnumeratedMetrics
          /\ \A m \in EnumeratedMetrics :
                metricsGot[k].ret[m] = SumDeltas(m, metricsGot[k].at)

\* a read after three increments: one counter incremented twice, another
\* never, and one increment went to a name outside the enumeration
C17_Witness ==
    \E k \in DOMAIN metricsGot :
        /\ metricsGot[k].at = MaxIncrements
        /\ \E m \in EnumeratedMetrics :
              /\ metricsGot[k].ret[m] = 3
              /\ \E n1 \in DOMAIN incrCalls, n2 \in DOMAIN incrCalls :
                    n1 < n2 /\ incrCalls[n1].metric = m /\ incrCalls[n2].metric = m
        /\ metricsGot[k].ret["total"] = 0
        /\ \E n \in DOMAIN incrCalls : incrCalls[n].metric = "error"

\* the value of a counter in the store, 0 when its key is absent
CounterValue(store, key) == IF store[key] = None THEN 0 ELSE IntOf(store[key])

\* C18, as stated (MetricSpec): no increment_call_metric call decreases a
\* counter, and only the enumerated counters exist in the metrics store.
C18_MonotonicFixedSet ==
    [][/\ \A key \in MetricKeys :
             CounterValue(metricStore', key) >= CounterValue(metricStore, key)
       /\ \A key \in MetricKeys :
             metricStore'[key] # None => key \in { MetricKey(m) : m \in EnumeratedMetrics }]_vars

\* C18, amended (MetricSpec): an increment_call_metric call with a delta
\* that is not negative decreases no counter, a call changes no counter but
\* the one it names, and get_call_metrics reports the enumerated counters
\* only.
C18_MonotonicNonNegative ==
    /\ [][incrCalls' # incrCalls =>
             LET c == incrCalls'[Len(incrCalls')] IN
             /\ \A key \in MetricKeys \ {MetricKey(c.metric)} :
                   metricStore'[key] = metricStore[key]
             /\ c.value >= 0 =>
                   CounterValue(metricStore', MetricKey(c.metric))
                       >= CounterValue(metricStore, MetricKey(c.metric))]_vars
    /\ [](\A k \in DOMAIN metricsGot : DOMAIN metricsGot[k].ret = EnumeratedMetrics)

\* a counter that already had a value was incremented again by a positive
\* delta, and the metrics were read afterwards
C18_Witness ==
    /\ \E n1 \in DOMAIN incrCalls, n2 \in DOMAIN incrCalls :
          /\ n1 < n2
          /\ incrCalls[n1].metric = incrCalls[n2].metric
          /\ incrCalls[n1].metric \in EnumeratedMetrics
          /\ incrCalls[n1].value > 0 /\ incrCalls[n2].value > 0
    /\ \E k \in DOMAIN metricsGot : metricsGot[k].at = Len(incrCalls)

\* C19, as stated (CacheSpec): get_cached_appointment(id) returns the data
\* of the latest cache_appointment(id, data) that no invalidation or expiry
\* has followed, and None otherwise.
C19_CacheReturnsData ==
    \A k \in DOMAIN cacheGot : cacheGot[k].ret = cacheGot[k].live

\* C19, amended (CacheSpec): get_cached_appointment(id) returns the JSON
\* round trip of that data, json.loads(json.dumps(data, default=str)), which
\* is the data itself when all its values are strings and has str(v) in the
\* place of any other value v; it returns None, without raising, for an id
\* never cached, invalidated or expired; and caching or invalidating one id
\* changes nothing of what is returned for another id.
C19_CacheRoundTrip ==
    /\ [](\A k \in DOMAIN cacheGot :
            LET g == cacheGot[k] IN
            /\ g.live = << >> => g.ret = << >>
            /\ g.live # << >> =>
                  /\ g.ret = << JsonLoads(JsonDumps(g.live[1])) >>
                  /\ (\A f \in DOMAIN g.live[1] : g.live[1][f].type = "str")
                         => g.ret = g.live)
    /\ [][\A a \in AppointmentIds :
             (CacheAppointment(a) \/ InvalidateAppointment(a))
             => \A b \in AppointmentIds \ {a} :
                   get_cached_appointment(cacheStore', b)
                       = get_cached_appointment(cacheStore, b)]_vars

\* a hit that returned string-only data unchanged, one tick after it was
\* cached, while the other id is cached with a later TTL
C19_Witness ==
    \E k \in DOMAIN cacheGot :
        /\ cacheGot[k].ret # << >>
        /\ cacheGot[k].ret = cacheGot[k].live
        /\ cacheLive[cacheGot[k].appointment_id] = cacheGot[k].live
        /\ cacheTtl[CacheKey(cacheGot[k].appointment_id)] < CacheTtl
        /\ \E b \in AppointmentIds :
              /\ b # cacheGot[k].appointment_id
              /\ cacheStore[CacheKey(b)] # << >>
              /\ cacheTtl[CacheKey(b)] = CacheTtl

\* C20 (CacheSpec): a snapshot that get_cached_appointment(id) returns
\* carries the status that the appointment has at the time of the call:
\* after a status update, the snapshot cached before it is not returned.
C20_InvalidatedOnStatusChange ==
    \A k \in DOMAIN cacheGot :
        cacheGot[k].ret # << >> => cacheGot[k].ret[1].status.v = cacheGot[k].status

\* the row of the fake DB with the given appointment id
RowOf(a) == db[CHOOSE k \in DOMAIN db : db[k].appointment_id = a]

\* C21 (RoomSpec): the metadata of every CreateRoomRequest is a JSON object
\* with exactly the fields appointment_id, customer_name, time, task and
\* created_at; the first three are the appointment's, task is
\* "confirm_appointment", and the agent's entrypoint reads the appointment
\* id back from it.
C21_RoomMetadataContract ==
    \A k \in DOMAIN roomCalls :
        LET m == JsonLoads(roomCalls[k].metadata)
            row == RowOf(roomCalls[k].appointment_id)
        IN /\ DOMAIN m = {"appointment_id", "customer_name", "time", "task", "created_at"}
           /\ m.appointment_id.v = row.appointment_id
           /\ m.customer_name.v = row.customer_name
           /\ m.time.v = row.time
           /\ m.task.v = "confirm_appointment"
           /\ entrypoint_appointment_id(roomCalls[k].metadata) = row.appointment_id

\* the room of appointment a was obtained: created, or reported as existing
RoomObtained(a) ==
    /\ roomLog[a] # << >>
    /\ (~roomLog[a][1].raised \/ IsAlreadyExists(roomLog[a][1].msg))

\* C22 (MissingKeySpec): an exception raised inside the processing of one
\* appointment (here the KeyError of a row without "phone", raised in
\* place_call_with_retry) becomes that appointment's one failure record with
\* attempts 0 and the exception's text, the run goes on with the next
\* appointment, and a run that reaches the summary has one record for every
\* due appointment.  The run ends early only at the head of the loop body.
C22_NoExceptionEscapes ==
    /\ \A k \in DOMAIN appointments :
          LET row == appointments[k]
              a == row.appointment_id
          IN (HeaderKeys \subseteq DOMAIN row /\ "phone" \notin DOMAIN row /\ k < i) =>
                /\ RecordsOf(a) = << IF RoomObtained(a)
                                     THEN ExceptionResult(a, KeyErrorPhone)
                                     ELSE RoomFailedResult(a) >>
                /\ placeLog[a] = << >>
    /\ pc = "aborted" =>
          /\ i \in DOMAIN appointments
          /\ ~(HeaderKeys \subseteq DOMAIN appointments[i])
    /\ pc = "done" =>
          \A k \in DOMAIN appointments :
              Len(RecordsOf(appointments[k].appointment_id)) = 1

\* the first appointment's processing raised and was recorded as a failure,
\* the second one was called with success, and the summary was reached
C22_Witness ==
    /\ pc = "done"
    /\ Len(appointments) = 2
    /\ "phone" \notin DOMAIN appointments[1]
    /\ CALL_RESULTS[1] = ExceptionResult(appointments[1].appointment_id, KeyErrorPhone)
    /\ Len(CALL_RESULTS) = 2
    /\ CALL_RESULTS[2].appointment_id = appointments[2].appointment_id
    /\ CALL_RESULTS[2].success

\* C23 (Spec): a room is created, a call attempted, a record written and a
\* backup notification sent only for appointments whose status is
\* 'Beklemede' and whose date is the run's target date, and the list main
\* works on holds exactly those appointments.
C23_OnlyDueProcessed ==
    /\ \A a \in AppointmentIds :
          (\/ roomLog[a] # << >>
           \/ placeLog[a] # << >>
           \/ RecordsOf(a) # << >>
           \/ smsCalls[a] > 0
           \/ emailCalls[a] > 0) => a \in DueIds
    /\ pc \notin {"start", "exited", "api_failed"} =>
          /\ \A k \in DOMAIN appointments :
                appointments[k].status = "Beklemede" /\ appointments[k].date = tomorrow
          /\ { appointments[k].appointment_id : k \in DOMAIN appointments } = DueIds

\* a finished run in which one appointment was due and called, and the other
\* one, not due, was left alone
C23_Witness ==
    /\ pc = "done"
    /\ \E a \in AppointmentIds, b \in AppointmentIds :
          /\ a \in DueIds /\ placeLog[a] # << >> /\ Len(RecordsOf(a)) = 1
          /\ b \notin DueIds /\ RowOf(b).date = tomorrow
          /\ roomLog[b] = << >> /\ RecordsOf(b) = << >>

\* the answers of the room service that are transient connectivity errors
IsTransientRoomError(outcome) == outcome.raised /\ outcome.msg = <<"connection", "refused">>

\* C24 (Spec): room creation for an appointment makes at most 3 tries; a try
\* is followed by another one only when it failed with a transient
\* connectivity error; and an appointment is failed for room creation after
\* transient errors only when all 3 tries were used.
C24_RoomCreationRetry ==
    \A a \in AppointmentIds :
        Finished(a) =>
            /\ Len(roomLog[a]) <= 3
            /\ \A k \in DOMAIN roomLog[a] :
                  k < Len(roomLog[a]) => IsTransientRoomError(roomLog[a][k])
            /\ (/\ RecordsOf(a) = << RoomFailedResult(a) >>
                /\ \A k \in DOMAIN roomLog[a] : IsTransientRoomError(roomLog[a][k]))
                   => Len(roomLog[a]) = 3

\* C25 (LockSpec): different resources have different keys; a worker that
\* acquires a resource which no other worker is inside finds its key free,
\* can take it at once and cannot time out, whatever other resources are
\* held; and acquiring or leaving one resource changes no other key.
C25_DisjointNoContention ==
    /\ [](\A r1 \in Resources, r2 \in Resources : r1 # r2 => LockKey(r1) # LockKey(r2))
    /\ [](\A w \in Workers :
            (/\ wpc[w] = "acquiring"
             /\ \A v \in Workers \ {w} : ~(wpc[v] = "body" /\ wres[v] = wres[w]))
                => /\ lockStore[LockKey(wres[w])] = None
                   /\ ENABLED LockAcquire(w)
                   /\ ~ENABLED LockAcquireTimeout(w))
    /\ [][\A w \in Workers :
             (wpc'[w] # wpc[w] /\ wres[w] # None) =>
                 \A r \in Resources \ {wres'[w]} :
                     lockStore'[LockKey(r)] = lockStore[LockKey(r)]]_vars

\* the two workers are inside the body for different resources at the same
\* time, each holding its own key, the second without having waited
C25_Witness ==
    \E w1 \in Workers, w2 \in Workers :
        /\ wpc[w1] = "body" /\ wpc[w2] = "body"
        /\ wres[w1] # wres[w2]
        /\ lockStore[LockKey(wres[w1])] = w1
        /\ lockStore[LockKey(wres[w2])] = w2
        /\ lockTtl[LockKey(wres[w1])] < lockTtl[LockKey(wres[w2])]
        /\ waited[w2] = 0

\* the Assistant's last tool call was the named tool
LastTool(tool) == agentRet # << >> /\ agentRet[1].tool = tool

\* the last entry of a sequence, << >> for the empty one
LastOf(seq) == IF seq = << >> THEN << >> ELSE << seq[Len(seq)] >>

C27_StatusValidation ==
    [][\A a \in IdArgs, status \in AgentStatusArgs :
          UpdateAppointmentStatus(a, status) =>
              LET accepted == /\ a \in {"randevu_101", "randevu_102"}
                              /\ \/ status = <<"Onaylandi">>
                                 \/ status = <<"Iptal", "Edildi">>
                                 \/ status[1] = "Ertelendi"
              IN  /\ agentRet'[1].ret.success = accepted
                  /\ accepted => agent_db'[a] = status
                  /\ ~accepted =>
                        /\ agent_db' = agent_db
                        /\ call_metrics' = call_metrics
                        /\ CONVERSATION_LOGS' = CONVERSATION_LOGS]_vars

\* a postponement of randevu_101 was stored, and the update that came next,
\* a valid status for an id the store does not have, was refused
C27_Witness ==
    /\ LastTool("update_appointment_status")
    /\ agentRet[1].args = << UnknownId, <<"Onaylandi">> >>
    /\ ~agentRet[1].ret.success
    /\ agent_db["randevu_101"] = <<"Ertelendi", "-", "Pazartesi">>
    /\ call_metrics.rescheduled = 1 /\ call_metrics.total_calls = 1
    /\ Len(CONVERSATION_LOGS) = 1

\* the status of the last "appointment_updated" entry logged for a, the
\* status agent.py is loaded with if there is none
LastApplied(a) ==
    LET ks == { k \in DOMAIN CONVERSATION_LOGS :
                  /\ CONVERSATION_LOGS[k].event_type = "appointment_updated"
                  /\ CONVERSATION_LOGS[k].data.appointment_id = a }
    IN  IF ks = {} THEN <<"Beklemede">>
        ELSE CONVERSATION_LOGS[CHOOSE k \in ks : \A j \in ks : j <= k].data.new_status

\* C28 (AgentSpec): no transition is forbidden: an update of an appointment
\* of the store to a valid status returns success = true whatever status the
\* appointment has, also after earlier updates of the same appointment, and
\* the stored status is always the one applied last.
C28_NoTransitionRestriction ==
    /\ [](\A a \in AppointmentIds : agent_db[a] = LastApplied(a))
    /\ [][\A a \in AppointmentIds, status \in AgentStatusArgs :
            (UpdateAppointmentStatus(a, status) /\ IsValidStatus(status)) =>
                /\ agentRet'[1].ret.success
                /\ agent_db'[a] = status
                /\ LastApplied(a)' = status]_vars

\* randevu_101 was confirmed and then cancelled: both updates were logged
\* and the stored status is the cancellation
C28_Witness ==
    /\ Len(CONVERSATION_LOGS) = 2
    /\ CONVERSATION_LOGS[1].data = [appointment_id |-> "randevu_101",
                                     new_status |-> <<"Onaylandi">>]
    /\ CONVERSATION_LOGS[2].data = [appointment_id |-> "randevu_101",
                                     new_status |-> <<"Iptal", "Edildi">>]
    /\ agent_db["randevu_101"] = <<"Iptal", "Edildi">>
    /\ LastTool("update_appointment_status") /\ agentRet[1].ret.success

\* C29 (AgentSpec): get_appointment_details is a pure lookup: for an id of
\* the store it returns status 'Bulundu' with the customer's name and the
\* time; for an id the store does not have, for None and for the empty
\* string it returns status 'Hata' with an error; and no lookup, the tenth
\* of a gathered batch included, changes the appointment store, the call
\* metrics or the conversation log.
C29_PureLookup ==
    [][\A a \in LookupArgs :
          GetAppointmentDetails(a) =>
              LET ret == agentRet'[1].ret IN
              /\ a = "randevu_101" =>
                    /\ ret.status = "Bulundu"
                    /\ ret.customer_name = <<"Ahmet Yilmaz">> /\ ret.time = <<"14:30">>
              /\ a = "randevu_102" =>
                    /\ ret.status = "Bulundu"
                    /\ ret.customer_name = <<"Zeynep Kaya">> /\ ret.time = <<"16:00">>
              /\ a \in {UnknownId, None, ""} =>
                    ret.status = "Hata" /\ ret.error # << >>
              /\ agent_db' = agent_db
              /\ call_metrics' = call_metrics
              /\ CONVERSATION_LOGS' = CONVERSATION_LOGS]_vars

\* ten lookups have returned, the last one for None with 'Hata', after
\* randevu_102 was cancelled: the store, the metrics and the log hold the
\* cancellation and nothing else
C29_Witness ==
    /\ lookups = 10
    /\ LastTool("get_appointment_details")
    /\ agentRet[1].args = << None >>
    /\ agentRet[1].ret.status = "Hata"
    /\ agent_db = [a \in AppointmentIds |->
                     IF a = "randevu_102" THEN <<"Iptal", "Edildi">> ELSE <<"Beklemede">>]
    /\ call_metrics.total_calls = 1
    /\ Len(CONVERSATION_LOGS) = 1

\* how many of the CallMetrics.update calls made so far had the status
CallsWith(status) ==
    Cardinality({ k \in DOMAIN metricCalls : metricCalls[k] = status })

CategorySum ==
    call_metrics.confirmed + call_metrics.cancelled
        + call_metrics.rescheduled + call_metrics.no_response

\* C30 (AgentSpec): after any sequence of CallMetrics.update calls,
\* total_calls is the number of calls made and each of confirmed, cancelled,
\* rescheduled and no_response is the number of calls made with that status;
\* so total_calls is at least the sum of the four counters, and equal to it
\* exactly when every status passed was one of the four.
C30_MetricsCounting ==
    /\ call_metrics.total_calls = Len(metricCalls)
    /\ call_metrics.confirmed = CallsWith("confirmed")
    /\ call_metrics.cancelled = CallsWith("cancelled")
    /\ call_metrics.rescheduled = CallsWith("rescheduled")
    /\ call_metrics.no_response = CallsWith("no_response")
    /\ call_metrics.total_calls >= CategorySum
    /\ call_metrics.total_calls = CategorySum
          <=> \A k \in DOMAIN metricCalls :
                 metricCalls[k] \in {"confirmed", "cancelled", "rescheduled", "no_response"}

\* three updates were made: one by end_call with the reason "error" that no
\* counter takes, one by a postponement and one by the third
\* handle_no_response; total_calls is 3 and the four counters add up to 2
C30_Witness ==
    /\ call_metrics.total_calls = 3
    /\ CategorySum = 2
    /\ call_metrics.rescheduled = 1
    /\ call_metrics.no_response = 1
    /\ metricCalls[1] = "error"

\* nothing was done for any appointment: no room asked for, no call
\* attempted, no record written, no notification sent
NothingProcessed ==
    /\ CALL_RESULTS = << >>
    /\ \A a \in AppointmentIds :
          /\ roomLog[a] = << >> /\ placeLog[a] = << >>
          /\ smsCalls[a] = 0 /\ emailCalls[a] = 0

\* C31 (Spec): a run that went through its batch (it printed the summary,
\* or found no due appointment) ends with status 0 whatever the recorded
\* results are; a run ends with a status other than 0 only when it failed
\* at its start (a credential missing, or the API client not built), and
\* then nothing was done for any appointment.
C31_ExitStatus ==
    /\ (pc \in {"done", "returned", "close_failed"} /\ exit_status # << >>)
          => exit_status = << 0 >>
    /\ (exit_status # << >> /\ exit_status # << 0 >>) =>
          /\ pc \in {"exited", "api_failed"}
          /\ appointments = << >>
          /\ NothingProcessed

\* C32 (Spec): inside place_call_with_retry every failed attempt but the
\* last permitted one is followed by exactly one sleep of retry_delay before
\* the next attempt, and no sleep follows a successful attempt or the last
\* failed one: before each attempt there are as many sleeps as attempts
\* made, a sleep is pending only after a failed attempt that is not the
\* last, and a call that ended after n attempts has slept n-1 times, every
\* time for retry_delay.
C32_FixedDelaySpacing ==
    \A a \in AppointmentIds :
        /\ \A k \in DOMAIN sleepLog[a] : sleepLog[a][k] = retry_delay
        /\ (Current(a) /\ pc = "place") => Len(sleepLog[a]) = Len(placeLog[a])
        /\ (Current(a) /\ pc = "retry_sleep") =>
              /\ Len(sleepLog[a]) = Len(placeLog[a]) - 1
              /\ placeLog[a][Len(placeLog[a])] \in {"fail", "raise"}
              /\ Len(placeLog[a]) < max_retries
        /\ (Returned(a) /\ placeLog[a] # << >>) =>
              /\ Len(sleepLog[a]) = Len(placeLog[a]) - 1
              /\ \/ placeLog[a][Len(placeLog[a])] = "ok"
                 \/ Len(placeLog[a]) = max_retries
        /\ placeLog[a] = << >> => sleepLog[a] = << >>

\* one appointment's call succeeded at the third attempt after two sleeps,
\* the other's succeeded at once without any
C32_Witness ==
    \E a \in AppointmentIds, b \in AppointmentIds :
        /\ Finished(a) /\ Finished(b)
        /\ placeLog[a] = << "fail", "raise", "ok" >>
        /\ sleepLog[a] = << retry_delay, retry_delay >>
        /\ placeLog[b] = << "ok" >>
        /\ sleepLog[b] = << >>

\* C33 (Spec): an exception of the call provider during an attempt counts
\* as that attempt failing: it is followed by the retry delay if attempts
\* remain, it never leaves place_call_with_retry (the appointment gets no
\* record of an unexpected exception, and the call's result is a success or
\* the exhaustion failure), and when all max_retries attempts raised the
\* result is success = false with attempts = max_retries.
C33_ProviderExceptionsAreFailures ==
    \A a \in AppointmentIds : \A k \in DOMAIN placeLog[a] :
        placeLog[a][k] = "raise" =>
            /\ k <= max_retries
            /\ k < max_retries =>
                  \/ Len(sleepLog[a]) >= k
                  \/ Current(a) /\ pc = "retry_sleep" /\ k = Len(placeLog[a])
            /\ k = max_retries => Len(sleepLog[a]) = max_retries - 1 /\ Returned(a)
            /\ \A j \in DOMAIN RecordsOf(a) :
                  \/ RecordsOf(a)[j] = ExpectedExhausted(a)
                  \/ \E n \in 1..max_retries : RecordsOf(a)[j] = ExpectedSuccess(a, n)
            /\ (Finished(a) /\ \A j \in DOMAIN placeLog[a] : placeLog[a][j] = "raise") =>
                  /\ Len(placeLog[a]) = max_retries
                  /\ RecordsOf(a) = << [success |-> FALSE, appointment_id |-> a,
                                        attempts |-> max_retries,
                                        error |-> "Max retry exceeded"] >>

\* every attempt of one appointment's call raised: three attempts, two
\* sleeps, the exhaustion failure recorded, and the run went on to the end
C33_Witness ==
    /\ pc = "done"
    /\ \E a \in AppointmentIds :
          /\ placeLog[a] = << "raise", "raise", "raise" >>
          /\ sleepLog[a] = << retry_delay, retry_delay >>
          /\ RecordsOf(a) = << ExpectedExhausted(a) >>

\* C34 (AgentSpec): every update_appointment_status call that succeeds
\* appends exactly one 'appointment_updated' entry to the conversation log,
\* carrying the appointment id and the new status, the Assistant's own
\* appointment id and a timestamp; a refused update appends nothing; and no
\* step of any tool modifies or removes an entry the log already has.
C34_AuditEventPerStatusChange ==
    /\ [][\A a \in IdArgs, status \in AgentStatusArgs :
            UpdateAppointmentStatus(a, status) =>
                IF agentRet'[1].ret.success
                THEN /\ Len(CONVERSATION_LOGS') = Len(CONVERSATION_LOGS) + 1
                     /\ LET e == CONVERSATION_LOGS'[Len(CONVERSATION_LOGS')] IN
                        /\ DOMAIN e = {"timestamp", "appointment_id", "event_type", "data"}
                        /\ e.event_type = "appointment_updated"
                        /\ e.data = [appointment_id |-> a, new_status |-> status]
                        /\ e.appointment_id = self_appointment_id
                ELSE CONVERSATION_LOGS' = CONVERSATION_LOGS]_vars
    /\ [][/\ Len(CONVERSATION_LOGS') >= Len(CONVERSATION_LOGS)
          /\ SubSeq(CONVERSATION_LOGS', 1, Len(CONVERSATION_LOGS)) = CONVERSATION_LOGS]_vars

\* an Assistant constructed for randevu_101 has confirmed randevu_101 and
\* then postponed randevu_102; the log holds the two entries in that order,
\* both under the Assistant's own id
C34_Witness ==
    /\ self_appointment_id = "randevu_101"
    /\ Len(CONVERSATION_LOGS) = 2
    /\ CONVERSATION_LOGS[1].data =
          [appointment_id |-> "randevu_101", new_status |-> <<"Onaylandi">>]
    /\ CONVERSATION_LOGS[2].data =
          [appointment_id |-> "randevu_102", new_status |-> <<"Ertelendi", "-", "Pazartesi">>]
    /\ CONVERSATION_LOGS[1].appointment_id = "randevu_101"
    /\ CONVERSATION_LOGS[2].appointment_id = "randevu_101"
    /\ LastTool("update_appointment_status")
    /\ agentRet[1].args = << "randevu_102", <<"Ertelendi", "-", "Pazartesi">> >>
    /\ agentRet[1].ret.success

\* C35 (Spec): CALL_RESULTS only grows at its end: a step adds at most one
\* record and leaves every record that is already there in its place and
\* unchanged, whether the step is a save, a notification, a delay, the
\* processing of another appointment or the summary; and the records stand
\* in the order in which the appointments were processed.
C35_RecordsImmutable ==
    /\ [][/\ Len(CALL_RESULTS') \in {Len(CALL_RESULTS), Len(CALL_RESULTS) + 1}
          /\ \A k \in DOMAIN CALL_RESULTS : CALL_RESULTS'[k] = CALL_RESULTS[k]]_vars
    /\ [](\A k \in DOMAIN CALL_RESULTS :
            /\ k \in DOMAIN appointments
            /\ CALL_RESULTS[k].appointment_id = appointments[k].appointment_id)

\* the run has printed its summary over two records: the first appointment's
\* exhausted call, written before its notifications and the delay between
\* the appointments, and then the second appointment's success
C35_Witness ==
    /\ pc = "done"
    /\ Len(appointments) = 2
    /\ CALL_RESULTS = << ExpectedExhausted(appointments[1].appointment_id),
                         ExpectedSuccess(appointments[2].appointment_id, 2) >>
    /\ smsTask[appointments[1].appointment_id] = "done"
    /\ emailTask[appointments[1].appointment_id] = "raised"
    /\ delayLog = << inter_call_delay >>

\* the appointments that have a failure record
FailedIds == { CALL_RESULTS[k].appointment_id :
                 k \in { j \in DOMAIN CALL_RESULTS : ~CALL_RESULTS[j].success } }

\* C36 (Spec): print_summary is reached only with at least one recorded
\* result: a run without due appointments returns before it and prints no
\* summary, so the percentages are never computed over zero results; and in
\* the summary total = successful + failed = the number of due appointments,
\* and the failed appointments listed are exactly those whose record has
\* success = false.
C36_SummaryConsistency ==
    /\ pc # "summary_failed"
    /\ pc = "returned" => (summary = None /\ DueIds = {} /\ CALL_RESULTS = << >>)
    /\ pc \in {"done", "close_failed"} =>
          /\ summary.total >= 1
          /\ summary.total = summary.successful + summary.failed
          /\ summary.total = Cardinality(DueIds)
          /\ summary.successful = Cardinality(DueIds \ FailedIds)
          /\ { summary.failed_ids[k].appointment_id : k \in DOMAIN summary.failed_ids }
                = FailedIds
          /\ \A k \in DOMAIN summary.failed_ids : ~summary.failed_ids[k].success
    /\ pc \notin {"done", "close_failed"} => summary = None

\* the summary of a run over two due appointments, one called with success
\* and one whose room could not be created: total 2, successful 1, failed 1
C36_Witness ==
    /\ pc = "done"
    /\ summary.total = 2 /\ summary.successful = 1 /\ summary.failed = 1
    /\ Len(summary.failed_ids) = 1
    /\ summary.failed_ids[1].attempts = 0
    /\ summary.failed_ids[1].appointment_id \in DueIds

\* C37 (LockSpec): leaving the StateManager.lock block never removes a lock
\* that another worker owns: when a worker leaves the block, by the end of
\* its body after its own lock expired or by TimeoutError, every key that
\* holds another worker's token holds it afterwards as well, with its TTL.
C37_ReleaseKeepsOthersLock ==
    [][\A w \in Workers :
          (wpc[w] \in {"body", "acquiring"} /\ wpc'[w] = "idle") =>
              \A k \in LockKeys :
                  (lockStore[k] # None /\ lockStore[k] # w) =>
                      /\ lockStore'[k] = lockStore[k]
                      /\ lockTtl'[k] = lockTtl[k]]_vars

\* a worker whose lock had expired left its body while the other worker,
\* which had acquired the same resource in the meantime, was inside: the
\* key still holds the other worker's token
C37_Witness ==
    \E w1 \in Workers, w2 \in Workers :
        /\ w1 # w2
        /\ wpc[w1] = "idle" /\ wrel[w1] = "LockNotOwnedError" /\ wsaw[w1] = w2
        /\ wpc[w2] = "body" /\ wres[w2] = wres[w1]
        /\ lockStore[LockKey(wres[w1])] = w2
        /\ lockTtl[LockKey(wres[w1])] > 0

\* C38 (ConnSpec): whichever of the nine operations of the StateManager is
\* called while no connect() has returned yet, or after a disconnect() has
\* returned and before the next connect() that returns, it raises
\* RuntimeError and sends nothing to the backing store.
C38_ConnectionGuard ==
    [][\A op \in StateManagerOps :
          (StateManagerOp(op) /\ connHist # "up") =>
              /\ smRet'[1] = [op |-> op, raised |-> "RuntimeError"]
              /\ redisLog' = redisLog
              /\ UNCHANGED << lockStore, streams, metricStore, cacheStore >>]_vars

\* a StateManager was connected, used and disconnected; the operation
\* called after that raised RuntimeError, and the server has seen the PING
\* and the one command sent while connected
C38_Witness ==
    /\ connHist = "down"
    /\ sm_redis = "client"
    /\ redisLog = << "PING", "XADD" >>
    /\ smRet = << [op |-> "get_call_metrics", raised |-> "RuntimeError"] >>

\* what str(e) can be in a record saved by main's except handler
ExceptionTexts == {KeyErrorPhone, ProviderError, "sms", "email"}

\* the room provisioner failed for appointment a with an error other than
\* "already exists"
RoomCreationFailed(a) ==
    \E k \in DOMAIN roomLog[a] :
        roomLog[a][k].raised /\ ~IsAlreadyExists(roomLog[a][k].msg)

\* C39 (MissingKeySpec): every record of CALL_RESULTS has
\* 0 <= attempts <= max_retries; a successful record has at least one attempt
\* and no error field; a record with no attempts is a failure saved because
\* no room could be created or because an exception reached main's handler;
\* and a record with error "Max retry exceeded" has attempts = max_retries.
C39_AttemptCount ==
    \A k \in DOMAIN CALL_RESULTS :
        LET r == CALL_RESULTS[k] IN
        /\ r.attempts \in 0..max_retries
        /\ r.success => (r.attempts >= 1 /\ "error" \notin DOMAIN r)
        /\ r.attempts = 0 =>
              /\ ~r.success
              /\ "error" \in DOMAIN r
              /\ \/ r.error = "Room creation failed" /\ RoomCreationFailed(r.appointment_id)
                 \/ r.error \in ExceptionTexts
        /\ ("error" \in DOMAIN r /\ r.error = "Max retry exceeded") =>
              r.attempts = max_retries

\* a finished batch of two: the first appointment used up its retries, the
\* second has no phone and was recorded with no attempts by main's handler
C39_Witness ==
    /\ pc = "done"
    /\ Len(CALL_RESULTS) = 2
    /\ ~CALL_RESULTS[1].success
    /\ CALL_RESULTS[1].attempts = max_retries
    /\ CALL_RESULTS[1].error = "Max retry exceeded"
    /\ CALL_RESULTS[2].attempts = 0
    /\ CALL_RESULTS[2].error = KeyErrorPhone

\* the run is over after the summary, with a record for every appointment
\* of the list and at most max_retries call attempts made for each
BatchCompleted ==
    /\ exit_status # << >>
    /\ pc \in {"done", "close_failed"}
    /\ \A k \in DOMAIN appointments :
          /\ RecordsOf(appointments[k].appointment_id) # << >>
          /\ Len(placeLog[appointments[k].appointment_id]) <= max_retries

\* C40 (TerminationSpec): whatever the room provisioner, the call provider
\* and the notifiers answer, a batch run that has entered its loop over the
\* due appointments ends: it reaches the summary and exits, with every
\* appointment of the list processed and at most max_retries call attempts
\* made for each.
C40_BatchTermination == (pc = "loop") ~> BatchCompleted

\* a batch of two that ended after the summary with the retries of both
\* appointments used up
C40_Witness ==
    /\ BatchCompleted
    /\ Len(appointments) = 2
    /\ \A k \in DOMAIN appointments :
          Len(placeLog[appointments[k].appointment_id]) = max_retries
====
